---- MODULE Spec2Model ----
(***************************************************************************)
(* Verification model of the jewelry cost estimator: the slab resolver,    *)
(* the cost calculator (calculator view and history re-pricing) and the    *)
(* settings synchronizer.                                                  *)
(*                                                                         *)
(* Numbers.  The program computes in IEEE doubles; the model computes in   *)
(* exact scaled integers:                                                  *)
(*   - gold weights are counted in 1/GDen gram,                            *)
(*   - stone weights and slab bounds in 1/CtDen carat,                     *)
(*   - gstRate in 1/GstDen (3 is 0.03),                                    *)
(*   - purity percentages in whole percent, rates in whole rupees,         *)
(*   - every monetary amount of a breakdown in 1/MoneyDen rupee.           *)
(* A quotient a/b is never formed: perPieceWeight = weight / pieces is     *)
(* compared with a bound by cross-multiplying with pieces (pieces >= 1).   *)
(***************************************************************************)
EXTENDS Integers, Sequences, FiniteSets, TLC

VARIABLES
    settings,      \* FixedSettings in effect (useSettings state)
    product,       \* raw inputs: purity, net_gold_weight, stones
    calc,          \* breakdown rendered by CalculatorView (latest version)
    priced,        \* breakdown of computePricing (history re-pricing)
    legacy,        \* results of the earlier calculator versions
    lastSynced,    \* useSettings lastSynced: Null or a timestamp
    sheetId,       \* SHEET_ID of the build
    sheet,         \* texts of the tabs of the published sheet
    syncs,         \* per useSyncFromSheet instance: the sync call awaiting its fetches
    isSyncing,     \* per useSyncFromSheet instance: isSyncing
    syncError,     \* per useSyncFromSheet instance: syncError
    started,       \* number of sync calls made
    applied,       \* number of times the success callback (applySync) has run
    settled,       \* the sync call that settled last: arguments, responses, result
    clock,         \* the time of the latest timestamp taken
    edits,         \* number of manual edits made in the settings drawer
    stored,        \* localStorage: the blobs under the settings and last-synced keys
    mounted,       \* Null, or what useSettings read when its initializers ran
    rawData,       \* useProducts: Null while the query loads, or the records fetched
    filters,       \* useProducts: the filters in effect
    products,      \* useProducts: the priced and price-filtered listing
    csvText,       \* the CSV text handed to the parser
    parsed,        \* what the parser made of csvText
    route,         \* the path the router shows
    page,          \* Null, or the page mounted on the route with its refs and state
    handoff,       \* localStorage: the blob under the loaded-product key
    mounts,        \* number of page mounts so far
    table,         \* the rows of the products table of the database
    lastSave,      \* Null, or the payload and the result of the latest saveProduct
    saves,         \* number of saveProduct calls so far
    form,          \* useCalculatorState: Null before the calculator mounts, or formState
    view,          \* CalculatorView: "form" or "summary"
    formStored,    \* localStorage: the blob under the form key
    field,         \* a numeric input: its options, its value, display and focus
    emitted        \* what the numeric input passed to onChange last

vars == <<settings, product, calc, priced, legacy, lastSynced, sheetId, sheet, syncs,
          isSyncing, syncError, started, applied, settled, clock, edits, stored, mounted,
          rawData, filters, products, csvText, parsed, route, page, handoff, mounts,
          table, lastSave, saves, form, view, formStored, field, emitted>>

syncVars == <<lastSynced, sheetId, sheet, syncs, isSyncing, syncError, started, applied,
              settled, clock>>
pricingOutputs == <<product, calc, priced, legacy>>
historyVars == <<rawData, filters, products>>
parseVars == <<csvText, parsed>>
pageVars == <<route, page, handoff, mounts>>
storeVars == <<table, lastSave, saves>>
formVars == <<form, view, formStored>>
inputVars == <<field, emitted>>
viewVars == <<pageVars, storeVars, formVars, inputVars>>
otherVars == <<edits, mounted, historyVars, parseVars, viewVars>>

-----------------------------------------------------------------------------
(* Units *)

Units == [gram |-> 2, carat |-> 4, gst |-> 100]
GDen == Units.gram
CtDen == Units.carat
GstDen == Units.gst
MoneyDen == GDen * CtDen * GstDen

(* Bounds *)

MaxStones == 2
MaxSyncs == 2
MaxEdits == 1
MaxContent == 3
MaxRecords == 2

-----------------------------------------------------------------------------
(* Values *)

Null == [null |-> TRUE]

NoOutput == [pending |-> TRUE]

\* the value NaN of a cell that is no number
NaN == -999999999

\* Math.round: the nearest integer, a tie going up; n/d with d > 0.
MathRound(n, d) == (2 * n + d) \div (2 * d)

\* Array.prototype.find on the sequence of the outcomes of the test: index of
\* the first element that passes, 0 when none.
FindIndex(passes) ==
    IF \E i \in 1..Len(passes) : passes[i]
    THEN CHOOSE i \in 1..Len(passes) : passes[i] /\ \A j \in 1..(i - 1) : ~passes[j]
    ELSE 0

RECURSIVE SumSeq(_)
SumSeq(s) == IF s = <<>> THEN 0 ELSE Head(s) + SumSeq(Tail(s))

Max(a, b) == IF a >= b THEN a ELSE b

GOLD_PURITIES == <<"24", "22", "18", "14">>

-----------------------------------------------------------------------------
(* Slab resolver *)

\* slabs.find(...) with the upper bound taken inclusive
resolveAutoSlabUpperInclusive(slabs, weight, quantity) ==
    IF weight <= 0 \/ Len(slabs) = 0 THEN Null
    ELSE LET pieces == Max(1, quantity)
             Match(sl) == weight >= sl.fromWeight * pieces
                          /\ weight <= sl.toWeight * pieces
             i == FindIndex([k \in 1..Len(slabs) |-> Match(slabs[k])])
         IN IF i = 0 THEN Null ELSE slabs[i]

\* the last slab taken when no slab matches
resolveAutoSlabClamped(slabs, weight, quantity) ==
    IF weight <= 0 \/ Len(slabs) = 0 THEN Null
    ELSE LET pieces == Max(1, quantity)
             Match(sl) == weight >= sl.fromWeight * pieces
                          /\ weight < sl.toWeight * pieces
             i == FindIndex([k \in 1..Len(slabs) |-> Match(slabs[k])])
         IN IF i = 0 THEN slabs[Len(slabs)] ELSE slabs[i]

\* weight / quantity with the quantity taken as it is
resolveAutoSlabRawQuantity(slabs, weight, quantity) ==
    IF weight <= 0 \/ Len(slabs) = 0 THEN Null
    ELSE LET Match(sl) ==
                 IF quantity > 0
                 THEN weight >= sl.fromWeight * quantity /\ weight < sl.toWeight * quantity
                 ELSE IF quantity < 0
                 THEN weight <= sl.fromWeight * quantity /\ weight > sl.toWeight * quantity
                 ELSE FALSE    \* weight / 0 is Infinity, in no slab
             i == FindIndex([k \in 1..Len(slabs) |-> Match(slabs[k])])
         IN IF i = 0 THEN Null ELSE slabs[i]

resolveAutoSlab(slabs, weight, quantity) ==
    IF weight <= 0 \/ Len(slabs) = 0 THEN Null
    ELSE LET pieces == Max(1, quantity)
             \* perPieceWeight = weight / pieces
             Match(sl) == weight >= sl.fromWeight * pieces
                          /\ weight < sl.toWeight * pieces
             i == FindIndex([k \in 1..Len(slabs) |-> Match(slabs[k])])
         IN IF i = 0 THEN Null ELSE slabs[i]

-----------------------------------------------------------------------------
(* Making charge *)

calculateMakingCharge(netGoldWeight, flatRate, perGramRate) ==
    IF netGoldWeight <= 0 THEN 0
    ELSE IF netGoldWeight < 2 * GDen THEN flatRate * MoneyDen
    ELSE netGoldWeight * perGramRate * (MoneyDen \div GDen)

\* The stepper version of the calculator view and the version before it.
calculateMakingChargeStepper(netGoldWeight, flatRate, perGramRate) ==
    IF netGoldWeight <= 0 THEN 0
    ELSE IF netGoldWeight <= 2 * GDen THEN flatRate * MoneyDen
    ELSE netGoldWeight * perGramRate * (MoneyDen \div GDen)

-----------------------------------------------------------------------------
(* Lookups shared by the calculators *)

PurityPercentage(s, purity) ==
    IF purity \in DOMAIN s.purityPercentages THEN s.purityPercentages[purity] ELSE 100

\* an unknown stone type priced with the slabs of the first stone type
getStoneSlabsFirstFallback(s, stoneTypeId) ==
    LET i == FindIndex([k \in 1..Len(s.stoneTypes) |-> s.stoneTypes[k].stoneId = stoneTypeId])
    IN IF i = 0
       THEN (IF Len(s.stoneTypes) = 0 THEN <<>> ELSE s.stoneTypes[1].slabs)
       ELSE s.stoneTypes[i].slabs

getStoneSlabs(s, stoneTypeId) ==
    LET i == FindIndex([k \in 1..Len(s.stoneTypes) |-> s.stoneTypes[k].stoneId = stoneTypeId])
    IN IF i = 0 THEN <<>> ELSE s.stoneTypes[i].slabs

PricePerCarat(slab) == IF slab = Null THEN 0 ELSE slab.pricePerCarat

SlabInfo(slab) ==
    IF slab = Null THEN Null
    ELSE [code |-> slab.code, fromWeight |-> slab.fromWeight,
          toWeight |-> slab.toWeight, pricePerCarat |-> slab.pricePerCarat]

SlabCode(slab) == IF slab = Null THEN "null" ELSE slab.code

\* subTotal * settings.gstRate with the rate read as a percentage
GstRateAsPercent(subTotal, gstRate) == subTotal * gstRate

Gst(subTotal, gstRate) == (subTotal * gstRate) \div GstDen

\* gold and stone costs in 1/MoneyDen rupee
GoldCost(netGoldWeight, rate) == netGoldWeight * rate * (MoneyDen \div GDen)

StoneCost(pricePerCarat, weight) == pricePerCarat * weight * (MoneyDen \div CtDen)

-----------------------------------------------------------------------------
(* Calculator view, latest version *)

calculatedGoldRates(s) ==
    [i \in 1..Len(GOLD_PURITIES) |->
        [purity |-> GOLD_PURITIES[i],
         rate |-> MathRound(s.goldRate24k * PurityPercentage(s, GOLD_PURITIES[i]), 100)]]

goldRateValue(s, purity) ==
    LET rates == calculatedGoldRates(s)
        i == FindIndex([k \in 1..Len(rates) |-> rates[k].purity = purity])
    IN IF i = 0 THEN 0 ELSE rates[i].rate

CalculatorView(s, netGoldWeight, purity, stones) ==
    LET goldCost == GoldCost(netGoldWeight, goldRateValue(s, purity))
        makingCost == calculateMakingCharge(netGoldWeight, s.makingChargeFlat,
                                            s.makingChargePerGram)
        stoneDetails ==
            [i \in 1..Len(stones) |->
                LET d == stones[i]
                    slab == resolveAutoSlab(getStoneSlabs(s, d.stoneTypeId),
                                            d.weight, d.quantity)
                IN [stoneTypeId |-> d.stoneTypeId, weight |-> d.weight,
                    quantity |-> d.quantity,
                    totalCost |-> StoneCost(PricePerCarat(slab), d.weight),
                    slabInfo |-> SlabInfo(slab)]]
        totalStoneCost == SumSeq([i \in 1..Len(stones) |-> stoneDetails[i].totalCost])
        subTotal == (goldCost + makingCost) + totalStoneCost
        gst == Gst(subTotal, s.gstRate)
    IN [goldRateValue |-> goldRateValue(s, purity),
        grossWeight |-> netGoldWeight * CtDen
                        + SumSeq([i \in 1..Len(stones) |-> stones[i].weight]) * GDen,
        goldCost |-> goldCost, makingCost |-> makingCost,
        stoneDetails |-> stoneDetails, totalStoneCost |-> totalStoneCost,
        subTotal |-> subTotal, gst |-> gst, total |-> subTotal + gst]

-----------------------------------------------------------------------------
(* History re-pricing *)

computePricing(p, s) ==
    LET purityPercentage == PurityPercentage(s, p.purity)
        goldRate == MathRound(s.goldRate24k * purityPercentage, 100)
        goldCost == GoldCost(p.net_gold_weight, goldRate)
        makingCost == calculateMakingCharge(p.net_gold_weight, s.makingChargeFlat,
                                            s.makingChargePerGram)
        stoneDetails ==
            [i \in 1..Len(p.stones) |->
                LET e == p.stones[i]
                    slab == resolveAutoSlab(getStoneSlabs(s, e.stoneTypeId),
                                            e.weight, e.quantity)
                IN [stoneTypeId |-> e.stoneTypeId, weight |-> e.weight,
                    quantity |-> e.quantity,
                    pricePerCarat |-> PricePerCarat(slab),
                    cost |-> StoneCost(PricePerCarat(slab), e.weight),
                    slabCode |-> SlabCode(slab)]]
        stoneCostTotal == SumSeq([i \in 1..Len(p.stones) |-> stoneDetails[i].cost])
        subTotal == goldCost + makingCost + stoneCostTotal
        gst == Gst(subTotal, s.gstRate)
    IN [goldRate |-> goldRate, goldCost |-> goldCost, makingCost |-> makingCost,
        stoneCostTotal |-> stoneCostTotal, subTotal |-> subTotal, gst |-> gst,
        total |-> subTotal + gst, stoneDetails |-> stoneDetails] @@ p

-----------------------------------------------------------------------------
(* Earlier versions of the calculator view *)

\* the slab the user picked by its code (slabId), not resolved from the weight
getStonePrice(s, stoneTypeId, slabId) ==
    LET slabs == getStoneSlabs(s, stoneTypeId)
        i == FindIndex([k \in 1..Len(slabs) |-> slabs[k].code = slabId])
    IN IF i = 0 THEN Null ELSE slabs[i]

\* stepper version: weight is the entry's total weight
CalculatorViewStepper(s, netGoldWeight, purity, stones) ==
    LET goldCost == GoldCost(netGoldWeight, goldRateValue(s, purity))
        makingCost == calculateMakingChargeStepper(netGoldWeight, s.makingChargeFlat,
                                                   s.makingChargePerGram)
        stoneDetails ==
            [i \in 1..Len(stones) |->
                LET d == stones[i]
                    slab == getStonePrice(s, d.stoneTypeId, d.slabId)
                IN [stoneTypeId |-> d.stoneTypeId, weight |-> d.weight,
                    quantity |-> d.quantity,
                    totalCost |-> StoneCost(PricePerCarat(slab), d.weight),
                    slabInfo |-> slab]]
        totalStoneCost == SumSeq([i \in 1..Len(stones) |-> stoneDetails[i].totalCost])
        subTotal == (goldCost + makingCost) + totalStoneCost
        gst == Gst(subTotal, s.gstRate)
    IN [goldCost |-> goldCost, makingCost |-> makingCost,
        stoneDetails |-> stoneDetails, totalStoneCost |-> totalStoneCost,
        subTotal |-> subTotal, gst |-> gst, total |-> subTotal + gst]

\* manual-slab version: weight is the weight of one piece
CalculatorViewManualSlab(s, netGoldWeight, purity, stones) ==
    LET goldCost == GoldCost(netGoldWeight, goldRateValue(s, purity))
        makingCost == calculateMakingChargeStepper(netGoldWeight, s.makingChargeFlat,
                                                   s.makingChargePerGram)
        stoneDetails ==
            [i \in 1..Len(stones) |->
                LET d == stones[i]
                    slab == getStonePrice(s, d.stoneTypeId, d.slabId)
                IN [stoneTypeId |-> d.stoneTypeId, weight |-> d.weight,
                    quantity |-> d.quantity,
                    pricePerCarat |-> PricePerCarat(slab),
                    totalCost |-> StoneCost(PricePerCarat(slab), d.weight) * d.quantity,
                    slabInfo |-> slab]]
        totalStoneCost == SumSeq([i \in 1..Len(stones) |-> stoneDetails[i].totalCost])
        subTotal == (goldCost + makingCost) + totalStoneCost
        gst == Gst(subTotal, s.gstRate)
    IN [goldCost |-> goldCost, makingCost |-> makingCost,
        stoneDetails |-> stoneDetails, totalStoneCost |-> totalStoneCost,
        subTotal |-> subTotal, gst |-> gst, total |-> subTotal + gst]

-----------------------------------------------------------------------------
(* Inputs of the pricing functions *)

Slab(code, from, to, price) ==
    [code |-> code, fromWeight |-> from, toWeight |-> to, pricePerCarat |-> price,
     discount |-> 0]

Stone(id, name, type, slabs) ==
    [stoneId |-> id, name |-> name, type |-> type, clarity |-> "VVS/EF", color |-> "",
     slabs |-> slabs]

\* contiguous ascending slabs: [0.25, 0.5) and [0.5, 1) carat
ContiguousSlabs == <<Slab("A1", 1, 2, 20000), Slab("A2", 2, 4, 30000)>>

\* overlapping, unsorted, with an empty interval
OverlappingSlabs == <<Slab("B1", 2, 6, 500), Slab("B2", 1, 3, 100), Slab("B3", 6, 6, 900)>>

\* a gap between 0.5 and 0.75 carat
GappedSlabs == <<Slab("A1", 1, 2, 20000), Slab("A3", 3, 4, 40000)>>

GoldRatesOf(rate24k, pct) ==
    [i \in 1..Len(GOLD_PURITIES) |->
        [purity |-> GOLD_PURITIES[i], label |-> "Net Wt (" \o GOLD_PURITIES[i] \o ")",
         rate |-> MathRound(rate24k * (IF GOLD_PURITIES[i] \in DOMAIN pct
                                       THEN pct[GOLD_PURITIES[i]] ELSE 100), 100)]]

DefaultPercentages == [p \in {"24", "22", "18", "14"} |->
    CASE p = "24" -> 100 [] p = "22" -> 92 [] p = "18" -> 76 [] p = "14" -> 60]

DEFAULT_SETTINGS ==
    [goldRate24k |-> 15000,
     goldRates |-> GoldRatesOf(15000, DefaultPercentages),
     purityPercentages |-> DefaultPercentages,
     makingChargeFlat |-> 4000,
     makingChargePerGram |-> 1800,
     gstRate |-> 3,
     stoneTypes |-> <<Stone("s1", "Round", "Diamond", ContiguousSlabs),
                      Stone("s2", "Oval", "Diamond", OverlappingSlabs)>>]

\* a settings value with no percentage for "22", an odd rate and a gapped catalog
SparseSettings ==
    LET pct == [p \in {"24", "18", "14"} |->
                   CASE p = "24" -> 100 [] p = "18" -> 75 [] p = "14" -> 58]
    IN [goldRate24k |-> 10001,
        goldRates |-> GoldRatesOf(10001, pct),
        purityPercentages |-> pct,
        makingChargeFlat |-> 500,
        makingChargePerGram |-> 300,
        gstRate |-> 5,
        stoneTypes |-> <<Stone("s1", "Round", "Diamond", GappedSlabs),
                         Stone("s3", "Ruby", "Gemstone", <<>>)>>]

EmptyCatalogSettings ==
    [DEFAULT_SETTINGS EXCEPT !.stoneTypes = <<>>, !.gstRate = 0]

PricingSettings == {DEFAULT_SETTINGS, SparseSettings, EmptyCatalogSettings}

Entry(stoneTypeId, slabId, weight, quantity) ==
    [stoneTypeId |-> stoneTypeId, slabId |-> slabId, weight |-> weight,
     quantity |-> quantity]

Entries ==
    { Entry("s1", "A2", 2, 1),      \* 0.5 ct, one piece
      Entry("s1", "A1", 4, 2),      \* 1 ct in two pieces: 0.5 ct a piece
      Entry("s2", "B2", 2, 1),      \* two slabs contain 0.5 ct
      Entry("gone", "A1", 2, 1),    \* stone type no longer in the catalog
      Entry("s1", "", 0, 1),        \* no weight yet
      Entry("s2", "B1", 6, 0),      \* quantity 0
      Entry("s1", "A1", 3, -1),     \* negative quantity
      Entry("s1", "A1", 1, 2),      \* 0.25 ct in two pieces: 0.125 ct a piece
      Entry("s2", "B2", 2, 0) }     \* quantity 0, 0.5 ct

RECURSIVE SeqsUpTo(_, _)
SeqsUpTo(S, n) ==
    IF n = 0 THEN {<<>>}
    ELSE LET shorter == SeqsUpTo(S, n - 1)
         IN shorter \cup {Append(q, e) : q \in {r \in shorter : Len(r) = n - 1}, e \in S}

PurityInputs == {"24", "22", "18", "14", "20"}

\* -0.5 g, 0, 1.5 g, 2 g, 5 g
GoldWeightInputs == {-1, 0, 3, 4, 10}

Products ==
    [purity : PurityInputs, net_gold_weight : GoldWeightInputs,
     stones : SeqsUpTo(Entries, MaxStones)]

-----------------------------------------------------------------------------
(* Persistence: the blobs of localStorage and JSON *)
(*                                                                         *)
(* A blob is Null (no item under the key), a text that is no JSON, or the  *)
(* JSON text of a value.  A JSON value carries its kind, which typeof and  *)
(* Array.isArray read.                                                     *)

Json(t, v) == [t |-> t, v |-> v]

JsonNull == Json("null", Null)

\* the value of a property an object does not have
JsonUndefined == Json("undefined", Null)

\* JSON.stringify writes NaN as null
NumberOrNull(n) == IF n = NaN THEN Null ELSE n

JsonNumber(n) == IF n = NaN THEN JsonNull ELSE Json("number", n)

Text(text) == [kind |-> "text", text |-> text]

JsonText(value) == [kind |-> "json", value |-> value]

JSONstringify(s) ==
    JsonText(Json("object",
        [goldRate24k |-> JsonNumber(s.goldRate24k),
         goldRates |-> Json("array", [k \in 1..Len(s.goldRates) |->
                           [s.goldRates[k] EXCEPT !.rate = NumberOrNull(@)]]),
         purityPercentages |-> Json("object", [p \in DOMAIN s.purityPercentages |->
                                   NumberOrNull(s.purityPercentages[p])]),
         makingChargeFlat |-> JsonNumber(s.makingChargeFlat),
         makingChargePerGram |-> JsonNumber(s.makingChargePerGram),
         gstRate |-> JsonNumber(s.gstRate),
         stoneTypes |-> Json("array", [k \in 1..Len(s.stoneTypes) |->
             [s.stoneTypes[k] EXCEPT !.slabs =
                 [j \in 1..Len(@) |->
                     [@[j] EXCEPT !.fromWeight = NumberOrNull(@),
                                  !.toWeight = NumberOrNull(@),
                                  !.pricePerCarat = NumberOrNull(@),
                                  !.discount = NumberOrNull(@)]]]])]))

typeof(x) == IF x.t \in {"null", "array", "object"} THEN "object" ELSE x.t

isArray(x) == x.t = "array"

\* obj.f
Prop(obj, f) ==
    IF obj.t = "object" /\ f \in DOMAIN obj.v THEN obj.v[f] ELSE JsonUndefined

JsTruthy(x) ==
    CASE x.t \in {"null", "undefined"} -> FALSE
      [] x.t = "number" -> x.v # 0
      [] x.t = "string" -> x.v # ""
      [] OTHER -> TRUE

\* the shape check without the test that goldRates is an array
isValidSettingsGoldRatesUnchecked(obj) ==
    /\ JsTruthy(obj)
    /\ typeof(obj) = "object"
    /\ typeof(Prop(obj, "goldRate24k")) = "number"
    /\ typeof(Prop(obj, "purityPercentages")) = "object"
    /\ typeof(Prop(obj, "makingChargeFlat")) = "number"
    /\ typeof(Prop(obj, "makingChargePerGram")) = "number"
    /\ typeof(Prop(obj, "gstRate")) = "number"
    /\ isArray(Prop(obj, "stoneTypes"))

isValidSettings(obj) ==
    /\ JsTruthy(obj)
    /\ typeof(obj) = "object"
    /\ typeof(Prop(obj, "goldRate24k")) = "number"
    /\ isArray(Prop(obj, "goldRates"))
    /\ typeof(Prop(obj, "purityPercentages")) = "object"
    /\ typeof(Prop(obj, "makingChargeFlat")) = "number"
    /\ typeof(Prop(obj, "makingChargePerGram")) = "number"
    /\ typeof(Prop(obj, "gstRate")) = "number"
    /\ isArray(Prop(obj, "stoneTypes"))

\* the parsed object as the program's value: each property with its value
Revive(obj) == [f \in DOMAIN obj.v |-> obj.v[f].v]

\* the initializer of the settings state: getItem, JSON.parse, isValidSettings
loadSettings(blob) ==
    IF blob = Null THEN DEFAULT_SETTINGS             \* no item
    ELSE IF blob.kind = "text" THEN DEFAULT_SETTINGS \* "", or JSON.parse throws
    ELSE IF isValidSettings(blob.value) THEN Revive(blob.value)
    ELSE DEFAULT_SETTINGS

-----------------------------------------------------------------------------
(* Sync state when no sync has been started *)

Hooks == {"page", "drawer"}

SyncInit ==
    /\ lastSynced = Null
    /\ sheetId = "sheet-1"
    /\ sheet = [rates |-> <<>>, stones |-> <<>>, slabs |-> <<>>]
    /\ syncs = [h \in Hooks |-> Null]
    /\ isSyncing = [h \in Hooks |-> FALSE]
    /\ syncError = [h \in Hooks |-> Null]
    /\ started = 0
    /\ applied = 0
    /\ settled = Null
    /\ clock = 0

\* no page is followed, and nothing is handed off
PageInit ==
    /\ route = "/"
    /\ page = Null
    /\ handoff = Null
    /\ mounts = 0

\* the products table is empty
StoreInit ==
    /\ table = {}
    /\ lastSave = Null
    /\ saves = 0

\* the calculator is not mounted and has stored nothing
FormInit ==
    /\ form = Null
    /\ view = "form"
    /\ formStored = Null

\* an empty numeric input that has passed nothing on
InputInit ==
    /\ field = [allowDecimal |-> TRUE, min |-> 0, value |-> 0, display |-> <<>>,
                isFocused |-> FALSE]
    /\ emitted = NoOutput

ViewInit == PageInit /\ StoreInit /\ FormInit /\ InputInit

\* useSettings has mounted on its own blob and has written it back; nothing is
\* edited, listed or parsed
OtherInit ==
    /\ ViewInit
    /\ edits = 0
    /\ stored = [settings |-> JSONstringify(settings), lastSynced |-> Null]
    /\ mounted = [read |-> JSONstringify(settings)]
    /\ rawData = Null
    /\ filters = [priceMin |-> "", priceMax |-> ""]
    /\ products = <<>>
    /\ csvText = <<>>
    /\ parsed = NoOutput

-----------------------------------------------------------------------------
(* Specification of the pricing functions: the inputs are drawn at the start *)
(* and each calculator is applied to them.                                   *)

InitPricing ==
    /\ settings \in PricingSettings
    /\ product \in Products
    /\ calc = NoOutput
    /\ priced = NoOutput
    /\ legacy = NoOutput
    /\ SyncInit
    /\ OtherInit

RenderCalculator ==
    /\ calc = NoOutput
    /\ calc' = CalculatorView(settings, product.net_gold_weight, product.purity,
                              product.stones)
    /\ UNCHANGED <<settings, product, priced, legacy, syncVars, stored, otherVars>>

PriceProduct ==
    /\ priced = NoOutput
    /\ priced' = computePricing(product, settings)
    /\ UNCHANGED <<settings, product, calc, legacy, syncVars, stored, otherVars>>

RenderEarlierVersions ==
    /\ legacy = NoOutput
    /\ legacy' = [stepper |-> CalculatorViewStepper(settings, product.net_gold_weight,
                                                    product.purity, product.stones),
                  manual |-> CalculatorViewManualSlab(settings, product.net_gold_weight,
                                                      product.purity, product.stones)]
    /\ UNCHANGED <<settings, product, calc, priced, syncVars, stored, otherVars>>

NextPricing == RenderCalculator \/ PriceProduct \/ RenderEarlierVersions

SpecPricing == InitPricing /\ [][NextPricing]_vars

-----------------------------------------------------------------------------
(* Properties of the pricing functions *)

Rendered == calc # NoOutput
Priced == priced # NoOutput

StoneIndices == 1..Len(product.stones)

InCatalog(id) == \E k \in 1..Len(settings.stoneTypes) : settings.stoneTypes[k].stoneId = id

\* the slab list of the entry's stone type in the current catalog (ids are unique)
SlabsOfEntry(e) ==
    IF InCatalog(e.stoneTypeId)
    THEN settings.stoneTypes[CHOOSE k \in 1..Len(settings.stoneTypes) :
                                settings.stoneTypes[k].stoneId = e.stoneTypeId].slabs
    ELSE <<>>

\* fromWeight <= weight / max(1, quantity) < toWeight
PerPieceIn(e, sl) ==
    LET q == IF e.quantity >= 1 THEN e.quantity ELSE 1
    IN sl.fromWeight * q <= e.weight /\ e.weight < sl.toWeight * q

FirstContaining(e, slabs, k) ==
    PerPieceIn(e, slabs[k]) /\ \A j \in 1..(k - 1) : ~PerPieceIn(e, slabs[j])

\* C1: for weight > 0 the resolver returns the first slab, in list order, whose
\* half-open interval [fromWeight, toWeight) contains weight / max(1, quantity),
\* in the calculator view and in the history re-pricing.
C1_FirstMatchingSlab ==
    \A i \in StoneIndices :
        LET e == product.stones[i]
            slabs == SlabsOfEntry(e)
        IN e.weight > 0 =>
            \A k \in 1..Len(slabs) :
                FirstContaining(e, slabs, k) =>
                    /\ Rendered => calc.stoneDetails[i].slabInfo = SlabInfo(slabs[k])
                    /\ Priced => /\ priced.stoneDetails[i].slabCode = slabs[k].code
                                 /\ priced.stoneDetails[i].pricePerCarat
                                        = slabs[k].pricePerCarat

\* an entry whose per-piece weight is the toWeight of one slab and the fromWeight
\* of the next, which it resolves to, next to an entry two slabs contain
C1_Witness ==
    /\ Rendered /\ Priced
    /\ \E i \in StoneIndices :
          LET e == product.stones[i]
              slabs == SlabsOfEntry(e)
              q == IF e.quantity >= 1 THEN e.quantity ELSE 1
          IN /\ e.quantity > 1
             /\ \E k \in 2..Len(slabs) :
                   /\ slabs[k - 1].toWeight * q = e.weight
                   /\ slabs[k].fromWeight * q = e.weight
                   /\ calc.stoneDetails[i].slabInfo = SlabInfo(slabs[k])
    /\ \E i \in StoneIndices :
          LET e == product.stones[i]
              slabs == SlabsOfEntry(e)
          IN /\ \E j, k \in 1..Len(slabs) :
                   j < k /\ PerPieceIn(e, slabs[j]) /\ PerPieceIn(e, slabs[k])
                   /\ slabs[k].fromWeight < slabs[j].fromWeight
             /\ calc.stoneDetails[i].slabInfo # Null

\* C2: the cost of a stone entry is the price per carat of its slab times the
\* entry's weight, not multiplied by the quantity, wherever stone costs are computed.
C2_CostIsPriceTimesWeight ==
    /\ Rendered =>
          \A i \in StoneIndices :
              calc.stoneDetails[i].totalCost
                 = PricePerCarat(calc.stoneDetails[i].slabInfo) * product.stones[i].weight
                   * (MoneyDen \div CtDen)
    /\ Priced =>
          \A i \in StoneIndices :
              priced.stoneDetails[i].cost
                 = priced.stoneDetails[i].pricePerCarat * product.stones[i].weight
                   * (MoneyDen \div CtDen)
    /\ legacy # NoOutput =>
          \A i \in StoneIndices :
              legacy.manual.stoneDetails[i].totalCost
                 = legacy.manual.stoneDetails[i].pricePerCarat * product.stones[i].weight
                   * (MoneyDen \div CtDen)

MakingRule(w) ==
    IF w <= 0 THEN 0
    ELSE IF w < 2 * GDen THEN settings.makingChargeFlat * MoneyDen
    ELSE w * settings.makingChargePerGram * (MoneyDen \div GDen)

\* C3: the making charge is 0 for weight <= 0, the flat fee for 0 < weight < 2 g
\* and weight * per-gram rate from 2 g on, in every place that computes it.
C3_MakingChargeRule ==
    /\ Rendered => calc.makingCost = MakingRule(product.net_gold_weight)
    /\ Priced => priced.makingCost = MakingRule(product.net_gold_weight)
    /\ legacy # NoOutput =>
          /\ legacy.stepper.makingCost = MakingRule(product.net_gold_weight)
          /\ legacy.manual.makingCost = MakingRule(product.net_gold_weight)

KnownPurity(p) ==
    \/ p \in DOMAIN settings.purityPercentages
    \/ \E k \in 1..Len(settings.goldRates) : settings.goldRates[k].purity = p

\* C4: a purity that matches no known purity of the settings is priced at gold
\* rate 0, so the gold cost is 0, and the breakdown is still produced.
C4_UnknownPurityZeroRate ==
    ~KnownPurity(product.purity) =>
        /\ Rendered => calc.goldRateValue = 0 /\ calc.goldCost = 0
        /\ Priced => priced.goldRate = 0 /\ priced.goldCost = 0

Unmatched(e) ==
    \/ ~InCatalog(e.stoneTypeId)
    \/ \A k \in 1..Len(SlabsOfEntry(e)) : ~PerPieceIn(e, SlabsOfEntry(e)[k])

\* C5: an entry whose stone type is not in the catalog, or whose per-piece weight
\* is in no slab of its stone type, adds 0 to the stone cost; the total stone cost
\* is the sum over the other entries and the sub-total is still formed from it.
C5_UnmatchedEntryCostsNothing ==
    /\ Rendered =>
          /\ \A i \in StoneIndices :
                Unmatched(product.stones[i]) => calc.stoneDetails[i].totalCost = 0
          /\ calc.totalStoneCost
                = SumSeq([i \in StoneIndices |->
                            IF Unmatched(product.stones[i]) THEN 0
                            ELSE calc.stoneDetails[i].totalCost])
          /\ calc.subTotal = calc.goldCost + calc.makingCost + calc.totalStoneCost
    /\ Priced =>
          /\ \A i \in StoneIndices :
                Unmatched(product.stones[i]) => priced.stoneDetails[i].cost = 0
          /\ priced.stoneCostTotal
                = SumSeq([i \in StoneIndices |->
                            IF Unmatched(product.stones[i]) THEN 0
                            ELSE priced.stoneDetails[i].cost])
          /\ priced.subTotal = priced.goldCost + priced.makingCost + priced.stoneCostTotal

\* a dangling entry and an entry in a gap of its slabs, both with weight, in a
\* breakdown whose gold cost is not 0
C5_Witness ==
    /\ Rendered /\ Priced
    /\ \E i \in StoneIndices :
          ~InCatalog(product.stones[i].stoneTypeId) /\ product.stones[i].weight > 0
    /\ \E i \in StoneIndices :
          /\ InCatalog(product.stones[i].stoneTypeId)
          /\ Len(SlabsOfEntry(product.stones[i])) > 0
          /\ product.stones[i].weight > 0
          /\ Unmatched(product.stones[i])
    /\ calc.goldCost > 0 /\ calc.subTotal > 0 /\ priced.subTotal > 0

ExampleInputs ==
    /\ settings = DEFAULT_SETTINGS
    /\ product = [purity |-> "18", net_gold_weight |-> 5 * GDen,
                  stones |-> <<Entry("s1", "A2", CtDen \div 2, 1)>>]

\* C6: subTotal = goldCost + makingCost + totalStoneCost, gst = subTotal * gstRate
\* and total = subTotal + gst, the total stone cost being the sum of the entry
\* costs; the example inputs give 81000, 2430 and 83430.
C6_Totals ==
    /\ Rendered =>
          /\ calc.totalStoneCost
                = SumSeq([i \in StoneIndices |-> calc.stoneDetails[i].totalCost])
          /\ calc.subTotal = calc.goldCost + calc.makingCost + calc.totalStoneCost
          /\ (calc.subTotal * settings.gstRate) % GstDen = 0
          /\ calc.gst = (calc.subTotal * settings.gstRate) \div GstDen
          /\ calc.total = calc.subTotal + calc.gst
          /\ ExampleInputs =>
                /\ calc.subTotal = 81000 * MoneyDen
                /\ calc.gst = 2430 * MoneyDen
                /\ calc.total = 83430 * MoneyDen
    /\ Priced =>
          /\ priced.stoneCostTotal
                = SumSeq([i \in StoneIndices |-> priced.stoneDetails[i].cost])
          /\ priced.subTotal = priced.goldCost + priced.makingCost + priced.stoneCostTotal
          /\ (priced.subTotal * settings.gstRate) % GstDen = 0
          /\ priced.gst = (priced.subTotal * settings.gstRate) \div GstDen
          /\ priced.total = priced.subTotal + priced.gst
          /\ ExampleInputs =>
                /\ priced.subTotal = 81000 * MoneyDen
                /\ priced.gst = 2430 * MoneyDen
                /\ priced.total = 83430 * MoneyDen

C6_Witness ==
    /\ Rendered /\ Priced /\ ExampleInputs
    /\ calc.goldCost = 57000 * MoneyDen
    /\ calc.makingCost = 9000 * MoneyDen
    /\ calc.totalStoneCost = 15000 * MoneyDen

\* C7: re-pricing a record from its raw fields gives the total the calculator
\* gives for the same raw inputs under the same settings.
C7_SameTotal == (Rendered /\ Priced) => priced.total = calc.total

\* what the two calculators show of entry i when the resolver returned slab
Resolved(i, slab) ==
    /\ Rendered => calc.stoneDetails[i].slabInfo = SlabInfo(slab)
    /\ Priced => /\ priced.stoneDetails[i].slabCode = SlabCode(slab)
                 /\ priced.stoneDetails[i].pricePerCarat = PricePerCarat(slab)

\* C15: the resolver returns null when the weight is <= 0 or the slab list is
\* empty, whatever the quantity, and when no slab's interval contains the
\* per-piece weight (a gap, or a weight at or above the highest toWeight).
C15_NullWhenNothingContains ==
    \A i \in StoneIndices :
        LET e == product.stones[i]
            slabs == SlabsOfEntry(e)
        IN (\/ e.weight <= 0
            \/ Len(slabs) = 0
            \/ \A k \in 1..Len(slabs) : ~PerPieceIn(e, slabs[k]))
           => Resolved(i, Null)

\* an entry without weight whose stone type has slabs, next to an entry whose
\* per-piece weight is at or above every toWeight or in a gap between two slabs
C15_Witness ==
    /\ Rendered /\ Priced
    /\ \E i \in StoneIndices :
          /\ product.stones[i].weight <= 0
          /\ Len(SlabsOfEntry(product.stones[i])) > 0
          /\ calc.stoneDetails[i].slabInfo = Null
    /\ \E i \in StoneIndices :
          LET e == product.stones[i]
              slabs == SlabsOfEntry(e)
              q == IF e.quantity >= 1 THEN e.quantity ELSE 1
          IN /\ e.weight > 0
             /\ Len(slabs) > 0
             /\ \/ \A k \in 1..Len(slabs) : e.weight >= slabs[k].toWeight * q
                \/ \E j, k \in 1..Len(slabs) :
                       /\ slabs[j].toWeight * q <= e.weight
                       /\ e.weight < slabs[k].fromWeight * q
                       /\ \A n \in 1..Len(slabs) : ~PerPieceIn(e, slabs[n])
             /\ calc.stoneDetails[i].slabInfo = Null
             /\ priced.stoneDetails[i].pricePerCarat = 0

\* the first slab of the list containing the weight itself, or null
SlabOfOnePiece(e) ==
    LET slabs == SlabsOfEntry(e)
        one == [e EXCEPT !.quantity = 1]
    IN IF e.weight > 0 /\ \E k \in 1..Len(slabs) : PerPieceIn(one, slabs[k])
       THEN slabs[CHOOSE k \in 1..Len(slabs) : FirstContaining(one, slabs, k)]
       ELSE Null

\* C16: resolving with a quantity <= 0 gives what resolving with quantity 1
\* gives: the weight is never divided by zero or by a negative number.
C16_NonPositiveQuantityIsOne ==
    \A i \in StoneIndices :
        product.stones[i].quantity <= 0 => Resolved(i, SlabOfOnePiece(product.stones[i]))

\* an entry of quantity 0 and an entry of negative quantity, each resolved to
\* the slab its whole weight is in
C16_Witness ==
    /\ Rendered /\ Priced
    /\ \E i \in StoneIndices :
          /\ product.stones[i].quantity = 0
          /\ calc.stoneDetails[i].slabInfo # Null
          /\ priced.stoneDetails[i].pricePerCarat > 0
    /\ \E i \in StoneIndices :
          /\ product.stones[i].quantity < 0
          /\ calc.stoneDetails[i].slabInfo # Null
          /\ priced.stoneDetails[i].pricePerCarat > 0

-----------------------------------------------------------------------------
(* Settings synchronizer: the tabular parser *)
(*                                                                         *)
(* A text is a sequence of characters.  The separators, the quote, the     *)
(* line breaks and the blank are characters of their own; any other        *)
(* element stands for a run of ordinary characters (a word).               *)

Quote == "\""

IsSpace(ch) == ch \in {" ", "\t", "\n", "\r"}

RECURSIVE Join(_)
Join(chars) == IF chars = <<>> THEN "" ELSE Head(chars) \o Join(Tail(chars))

RECURSIVE TrimLeft(_)
TrimLeft(chars) ==
    IF chars # <<>> /\ IsSpace(Head(chars)) THEN TrimLeft(Tail(chars)) ELSE chars

RECURSIVE TrimRight(_)
TrimRight(chars) ==
    IF chars # <<>> /\ IsSpace(chars[Len(chars)])
    THEN TrimRight(SubSeq(chars, 1, Len(chars) - 1))
    ELSE chars

\* String.prototype.trim, giving the field as one string
trim(chars) == Join(TrimRight(TrimLeft(chars)))

\* rows.push(row) unless every cell is empty
PushRow(rows, row) ==
    IF \E c \in 1..Len(row) : row[c] # "" THEN Append(rows, row) ELSE rows

\* the body of the loop without the escaped double-quote: every quote opens or
\* closes a quoted field
parseCsvStepNoEscape(raw, st, i) ==
    LET ch == raw[i]
    IN IF st.inQuotes
       THEN IF ch = Quote
            THEN [st EXCEPT !.inQuotes = FALSE]
            ELSE [st EXCEPT !.field = Append(@, ch)]
       ELSE IF ch = Quote
            THEN [st EXCEPT !.inQuotes = TRUE]
            ELSE IF ch = ","
            THEN [st EXCEPT !.row = Append(@, trim(st.field)), !.field = <<>>]
            ELSE IF ch = "\n"
            THEN [st EXCEPT !.rows = PushRow(@, Append(st.row, trim(st.field))),
                            !.row = <<>>, !.field = <<>>]
            ELSE IF ch = "\r"
            THEN st
            ELSE [st EXCEPT !.field = Append(@, ch)]

\* one pass of the body of the loop, at index i; skip stands for the i++ that
\* steps over the second quote of an escaped quote
parseCsvStep(raw, st, i) ==
    LET ch == raw[i]
        next == IF i + 1 <= Len(raw) THEN raw[i + 1] ELSE ""
    IN IF st.skip THEN [st EXCEPT !.skip = FALSE]
       ELSE IF st.inQuotes
       THEN IF ch = Quote /\ next = Quote
            THEN [st EXCEPT !.field = Append(@, Quote), !.skip = TRUE]
            ELSE IF ch = Quote
            THEN [st EXCEPT !.inQuotes = FALSE]
            ELSE [st EXCEPT !.field = Append(@, ch)]
       ELSE IF ch = Quote
            THEN [st EXCEPT !.inQuotes = TRUE]
            ELSE IF ch = ","
            THEN [st EXCEPT !.row = Append(@, trim(st.field)), !.field = <<>>]
            ELSE IF ch = "\n"
            THEN [st EXCEPT !.rows = PushRow(@, Append(st.row, trim(st.field))),
                            !.row = <<>>, !.field = <<>>]
            ELSE IF ch = "\r"
            THEN st
            ELSE [st EXCEPT !.field = Append(@, ch)]

\* the loop over the indices lo..hi in increasing order, split in two halves
\* (the test on the state after the first half has it computed before the
\* second half is entered)
RECURSIVE parseCsvLoop(_, _, _, _)
parseCsvLoop(raw, lo, hi, st) ==
    IF lo > hi THEN st
    ELSE IF lo = hi THEN parseCsvStep(raw, st, lo)
    ELSE LET mid == (lo + hi) \div 2
             half == parseCsvLoop(raw, lo, mid, st)
         IN IF half.skip \in BOOLEAN THEN parseCsvLoop(raw, mid + 1, hi, half) ELSE half

parseCsv(raw) ==
    LET st == parseCsvLoop(raw, 1, Len(raw),
                           [rows |-> <<>>, row |-> <<>>, field |-> <<>>,
                            inQuotes |-> FALSE, skip |-> FALSE])
    IN \* flush last field/row
       IF st.field # <<>> \/ Len(st.row) > 0
       THEN PushRow(st.rows, Append(st.row, trim(st.field)))
       ELSE st.rows

\* String.prototype.toLowerCase on the header words the sheets use
toLowerCase(str) ==
    CASE str = "Key" -> "key"
      [] str = "Value" -> "value"
      [] str = "stoneId" -> "stoneid"
      [] str = "StoneId" -> "stoneid"
      [] str = "Name" -> "name"
      [] str = "Type" -> "type"
      [] str = "Clarity" -> "clarity"
      [] str = "Color" -> "color"
      [] str = "Code" -> "code"
      [] str = "fromWeight" -> "fromweight"
      [] str = "toWeight" -> "toweight"
      [] str = "pricePerCarat" -> "pricepercarat"
      [] str = "Discount" -> "discount"
      [] OTHER -> str

\* the value of a property a row object does not have; no cell is equal to it,
\* a cell being trimmed
Undefined == " undefined"

Get(obj, key) == IF key \in DOMAIN obj THEN obj[key] ELSE Undefined

\* Convert the rows to objects keyed by the lower-cased cells of the first row.
csvToObjects(rows) ==
    IF Len(rows) < 2 THEN <<>>
    ELSE LET headers == [i \in 1..Len(rows[1]) |-> toLowerCase(rows[1][i])]
             names == {headers[i] : i \in 1..Len(headers)}
             \* a later column of the same name overwrites an earlier one
             Column(h) == CHOOSE i \in 1..Len(headers) :
                              headers[i] = h /\ \A j \in (i + 1)..Len(headers) : headers[j] # h
         IN [k \in 1..(Len(rows) - 1) |->
                [h \in names |->
                    IF Column(h) <= Len(rows[k + 1]) THEN rows[k + 1][Column(h)] ELSE ""]]

-----------------------------------------------------------------------------
(* Settings synchronizer: numbers *)

\* the numeric literals the sheets use, as fractions
Literals ==
    [c \in {"0", "1", "0.25", "0.5", "0.75", "0.05", "0.18", "38", "60", "75", "91", "100",
            "2000", "5000", "16000", "20000", "27295", "30000", "45000", "83430"} |->
        CASE c = "0" -> <<0, 1>>
          [] c = "1" -> <<1, 1>>
          [] c = "0.25" -> <<1, 4>>
          [] c = "0.5" -> <<1, 2>>
          [] c = "0.75" -> <<3, 4>>
          [] c = "0.05" -> <<5, 100>>
          [] c = "0.18" -> <<18, 100>>
          [] c = "38" -> <<38, 1>>
          [] c = "60" -> <<60, 1>>
          [] c = "75" -> <<75, 1>>
          [] c = "91" -> <<91, 1>>
          [] c = "100" -> <<100, 1>>
          [] c = "2000" -> <<2000, 1>>
          [] c = "5000" -> <<5000, 1>>
          [] c = "16000" -> <<16000, 1>>
          [] c = "20000" -> <<20000, 1>>
          [] c = "27295" -> <<27295, 1>>
          [] c = "30000" -> <<30000, 1>>
          [] c = "83430" -> <<83430, 1>>
          [] c = "45000" -> <<45000, 1>>]

\* Number(str), counted in 1/unit: the empty string is 0, a non-number is NaN
Number(str, unit) ==
    IF str = "" THEN 0
    ELSE IF str \in DOMAIN Literals
    THEN (Literals[str][1] * unit) \div Literals[str][2]
    ELSE NaN

\* Number(cell ?? 0)
NumberOrZero(cell, unit) == IF cell = Undefined THEN 0 ELSE Number(cell, unit)

\* Math.round(goldRate24k * (pct / 100))
RoundRate(goldRate24k, pct) ==
    IF goldRate24k = NaN \/ pct = NaN THEN NaN ELSE MathRound(goldRate24k * pct, 100)

-----------------------------------------------------------------------------
(* Settings synchronizer: parsers for each tab *)

Truthy(cell) == cell # Undefined /\ cell # ""

\* /^purity_(\d+)$/ on the keys the sheets use: the digits, or Undefined
PurityOfKey(key) ==
    CASE key = "purity_24" -> "24"
      [] key = "purity_22" -> "22"
      [] key = "purity_18" -> "18"
      [] key = "purity_14" -> "14"
      [] key = "purity_9" -> "9"
      [] OTHER -> Undefined

\* the key -> value map of the rates rows; a later row overwrites an earlier one
RatesMap(rows) ==
    LET valid == {k \in 1..Len(rows) :
                     Truthy(Get(rows[k], "key")) /\ Get(rows[k], "value") # Undefined}
        keys == {rows[k]["key"] : k \in valid}
        Last(key) == CHOOSE k \in valid :
                        rows[k]["key"] = key /\ \A j \in valid : rows[j]["key"] = key => j <= k
    IN [key \in keys |-> rows[Last(key)]["value"]]

\* Partial<FixedSettings>: a function on the fields the table supplies
parseRatesTab(rows) ==
    LET map == RatesMap(rows)
        purityKeys == {key \in DOMAIN map : PurityOfKey(key) # Undefined}
        purities == DOMAIN DEFAULT_SETTINGS.purityPercentages
                    \cup {PurityOfKey(key) : key \in purityKeys}
        purityPercentages ==
            [p \in purities |->
                IF \E key \in purityKeys : PurityOfKey(key) = p
                THEN Number(map[CHOOSE key \in purityKeys : PurityOfKey(key) = p], 1)
                ELSE DEFAULT_SETTINGS.purityPercentages[p]]
        hasPurity == purityKeys # {}
        fields == ({"goldRate24k", "makingChargeFlat", "makingChargePerGram", "gstRate"}
                    \cap DOMAIN map)
                  \cup (IF hasPurity THEN {"purityPercentages"} ELSE {})
    IN [f \in fields |->
           CASE f = "goldRate24k" -> Number(map[f], 1)
             [] f = "makingChargeFlat" -> Number(map[f], 1)
             [] f = "makingChargePerGram" -> Number(map[f], 1)
             [] f = "gstRate" -> Number(map[f], GstDen)
             [] f = "purityPercentages" -> purityPercentages]

OrEmpty(cell) == IF cell = Undefined THEN "" ELSE cell

parseStonesTab(rows) ==
    LET kept == SelectSeq(rows, LAMBDA r : Truthy(Get(r, "stoneid")))
    IN [k \in 1..Len(kept) |->
           [stoneId |-> kept[k]["stoneid"],
            name |-> OrEmpty(Get(kept[k], "name")),
            type |-> IF Get(kept[k], "type") = "Gemstone" THEN "Gemstone" ELSE "Diamond",
            clarity |-> OrEmpty(Get(kept[k], "clarity")),
            color |-> OrEmpty(Get(kept[k], "color"))]]

\* Record<string, Slab[]>: a function on the stone ids that have slab rows
parseSlabsTab(rows) ==
    LET kept == SelectSeq(rows, LAMBDA r : Truthy(Get(r, "stoneid")))
        ids == {kept[k]["stoneid"] : k \in 1..Len(kept)}
        SlabOf(r) ==
            [code |-> OrEmpty(Get(r, "code")),
             fromWeight |-> NumberOrZero(Get(r, "fromweight"), CtDen),
             toWeight |-> NumberOrZero(Get(r, "toweight"), CtDen),
             pricePerCarat |-> NumberOrZero(Get(r, "pricepercarat"), 1),
             discount |-> NumberOrZero(Get(r, "discount"), 1)]
    IN [id \in ids |->
           LET mine == SelectSeq(kept, LAMBDA r : r["stoneid"] = id)
           IN [k \in 1..Len(mine) |-> SlabOf(mine[k])]]

-----------------------------------------------------------------------------
(* Settings synchronizer: assembling the settings *)

AttachSlabs(stoneRows, slabsByStone) ==
    [n \in 1..Len(stoneRows) |->
        LET s == stoneRows[n]
        IN [stoneId |-> s.stoneId, name |-> s.name, type |-> s.type,
            clarity |-> s.clarity, color |-> s.color,
            slabs |-> IF s.stoneId \in DOMAIN slabsByStone
                      THEN slabsByStone[s.stoneId] ELSE <<>>]]

RecalculatedGoldRates(currentSettings, ratesPart) ==
    LET purityPercentages == IF "purityPercentages" \in DOMAIN ratesPart
                             THEN ratesPart["purityPercentages"]
                             ELSE currentSettings.purityPercentages
        goldRate24k == IF "goldRate24k" \in DOMAIN ratesPart
                       THEN ratesPart["goldRate24k"] ELSE currentSettings.goldRate24k
    IN [k \in 1..Len(currentSettings.goldRates) |->
           LET gr == currentSettings.goldRates[k]
               pct == IF gr.purity \in DOMAIN purityPercentages
                      THEN purityPercentages[gr.purity] ELSE 100
           IN [gr EXCEPT !.rate = RoundRate(goldRate24k, pct)]]

\* the stone catalog of the sheet taken even when it has no stone
assembleSettingsAlwaysReplace(currentSettings, ratesPart, stoneRows, slabsByStone) ==
    [(ratesPart @@ currentSettings) EXCEPT
        !.goldRates = RecalculatedGoldRates(currentSettings, ratesPart),
        !.stoneTypes = AttachSlabs(stoneRows, slabsByStone)]

\* the stone types of the sheet added to the catalog instead of replacing it
assembleSettingsAppendStones(currentSettings, ratesPart, stoneRows, slabsByStone) ==
    [(ratesPart @@ currentSettings) EXCEPT
        !.goldRates = RecalculatedGoldRates(currentSettings, ratesPart),
        !.stoneTypes = currentSettings.stoneTypes \o AttachSlabs(stoneRows, slabsByStone)]

assembleSettings(currentSettings, ratesPart, stoneRows, slabsByStone) ==
    LET stoneTypes == AttachSlabs(stoneRows, slabsByStone)
    IN [(ratesPart @@ currentSettings) EXCEPT
           !.goldRates = RecalculatedGoldRates(currentSettings, ratesPart),
           !.stoneTypes = IF Len(stoneTypes) > 0 THEN stoneTypes
                          ELSE currentSettings.stoneTypes]

-----------------------------------------------------------------------------
(* The published sheet: texts the three tabs can hold *)

Q(chars) == <<Quote>> \o chars \o <<Quote>>

\* the cells of one line, comma separated, and the line break
RECURSIVE CsvLine(_)
CsvLine(cells) ==
    IF Len(cells) = 0 THEN <<"\n">>
    ELSE IF Len(cells) = 1 THEN cells[1] \o <<"\n">>
    ELSE cells[1] \o <<",">> \o CsvLine(Tail(cells))

RECURSIVE CsvText(_)
CsvText(lines) ==
    IF lines = <<>> THEN <<>> ELSE CsvLine(Head(lines)) \o CsvText(Tail(lines))

W(word) == <<word>>

RatesFullText ==
    CsvText(<< <<W("key"), W("value")>>,
               <<W("goldRate24k"), W("16000")>>,
               <<W("makingChargeFlat"), W("5000")>>,
               <<W("makingChargePerGram"), W("2000")>>,
               <<W("gstRate"), W("0.05")>>,
               <<W("purity_24"), W("100")>>,
               <<W("purity_22"), W("91")>>,
               <<W("purity_18"), W("75")>>,
               <<W("purity_14"), W("60")>> >>)

\* one purity key and nothing else
RatesPurity22Text ==
    CsvText(<< <<Q(W("key")), Q(W("value"))>>, <<Q(W("purity_22")), Q(W("91"))>> >>)

\* capitalised header, an unrecognised key, no purity key; lines end in CR LF
RatesGoldOnlyText ==
    <<"Key", ",", "Value", "\r", "\n",
      "goldRate24k", ",", " ", "16000", "\r", "\n",
      "note", ",", Quote, "see", ",", " ", "sheet", Quote, "\r", "\n">>

\* a purity the application does not list
RatesPurity9Text ==
    CsvText(<< <<W("key"), W("value")>>, <<W("purity_9"), W("38")>> >>)

StonesHeader == <<W("stoneId"), W("name"), W("type"), W("clarity"), W("color")>>

StonesTwoText ==
    CsvText(<< StonesHeader,
               <<W("d1"), W("Round"), W("Diamond"), W("VVS"), <<>> >>,
               <<W("g1"), Q(<<"Ruby", ",", " ", "red">>), W("Gemstone"), <<>>, W("Red")>> >>)

StonesHeaderOnlyText == CsvText(<<StonesHeader>>)

\* rows without a stone id
StonesNoIdText ==
    CsvText(<< StonesHeader,
               << <<>>, W("Loose"), W("Diamond"), <<>>, <<>> >>,
               << <<" ">>, W("Mixed"), W("Gemstone"), <<>>, <<>> >> >>)

\* the sheet has no discount column
SlabsHeader ==
    <<W("stoneId"), W("code"), W("fromWeight"), W("toWeight"), W("pricePerCarat")>>

SlabsText ==
    CsvText(<< SlabsHeader,
               <<W("d1"), W("D1"), W("0.25"), W("0.5"), W("20000")>>,
               <<W("g1"), W("G1"), W("0.25"), W("1"), W("45000")>>,
               << <<>>, W("X1"), W("0.25"), W("1"), W("45000")>>,
               <<W("d1"), W("D2"), W("0.5"), W("1"), W("30000")>> >>)

EmptyText == <<>>

ErrorBody == <<"Not", " ", "Found">>

Sheets ==
    [rates : {RatesFullText, RatesPurity22Text, RatesGoldOnlyText, RatesPurity9Text},
     stones : {StonesTwoText, StonesHeaderOnlyText, StonesNoIdText},
     slabs : {SlabsText, EmptyText}]

-----------------------------------------------------------------------------
(* Settings synchronizer: the sync call *)

\* the outcome of one fetch: rejected, or a response with a status and a body
Rejected == [kind |-> "rejected", message |-> "Failed to fetch"]

Http(status, text) ==
    [kind |-> "response", ok |-> (status >= 200 /\ status <= 299), status |-> status,
     readable |-> TRUE, text |-> text]

\* a response whose body cannot be read
Unreadable(text) == [Http(200, text) EXCEPT !.readable = FALSE]

NotFetched == [kind |-> "none"]

RatesResponses(text) == {Rejected, Http(404, ErrorBody), Http(200, text)}

StonesResponses(text) == {Http(500, ErrorBody), Http(200, text)}

SlabsResponses(text) == {Http(404, ErrorBody), Http(200, text), Unreadable(text)}

StatusText(status) ==
    CASE status = 404 -> "404" [] status = 500 -> "500" [] OTHER -> "200"

TabError(tabName, res) ==
    "Failed to fetch " \o Quote \o tabName \o Quote \o " tab (HTTP "
        \o StatusText(res.status) \o ")"

NotConfigured ==
    "Google Sheet ID is not configured. Add VITE_GOOGLE_SHEET_ID to your .env file or update FALLBACK_SHEET_ID in src/lib/config.ts."

BodyError == "Failed to read the response body"

\* SyncResult, with the settings handed to the success callback
\* the failure reported without its message
FailureWithoutMessage(msg) == [success |-> FALSE, error |-> Undefined, newSettings |-> Null]

Failure(msg) == [success |-> FALSE, error |-> msg, newSettings |-> Null]

Success(newSettings) == [success |-> TRUE, error |-> Undefined, newSettings |-> newSettings]

\* the call with the check of the status of the stones response left out
syncOutcomeStonesUnchecked(currentSettings, ratesRes, stonesRes, slabsRes) ==
    IF \E r \in {ratesRes, stonesRes, slabsRes} : r.kind = "rejected"
    THEN Failure(Rejected.message)
    ELSE IF ~ratesRes.ok THEN Failure(TabError("rates", ratesRes))
    ELSE IF ~slabsRes.ok THEN Failure(TabError("slabs", slabsRes))
    ELSE IF \E r \in {ratesRes, stonesRes, slabsRes} : ~r.readable
    THEN Failure(BodyError)
    ELSE Success(assembleSettings(currentSettings,
                                  parseRatesTab(csvToObjects(parseCsv(ratesRes.text))),
                                  parseStonesTab(csvToObjects(parseCsv(stonesRes.text))),
                                  parseSlabsTab(csvToObjects(parseCsv(slabsRes.text)))))

\* what a sync call does once its three fetches have settled
syncOutcome(currentSettings, ratesRes, stonesRes, slabsRes) ==
    IF \E r \in {ratesRes, stonesRes, slabsRes} : r.kind = "rejected"
    THEN Failure(Rejected.message)
    ELSE IF ~ratesRes.ok THEN Failure(TabError("rates", ratesRes))
    ELSE IF ~stonesRes.ok THEN Failure(TabError("stones", stonesRes))
    ELSE IF ~slabsRes.ok THEN Failure(TabError("slabs", slabsRes))
    ELSE IF \E r \in {ratesRes, stonesRes, slabsRes} : ~r.readable
    THEN Failure(BodyError)
    ELSE Success(assembleSettings(currentSettings,
                                  parseRatesTab(csvToObjects(parseCsv(ratesRes.text))),
                                  parseStonesTab(csvToObjects(parseCsv(stonesRes.text))),
                                  parseSlabsTab(csvToObjects(parseCsv(slabsRes.text)))))

\* new Date().toISOString() at the time t
toISOString(t) == [iso |-> t]

SettledCount == IF settled = Null THEN 0 ELSE settled.seq

Settle(h, currentSettings, ratesRes, stonesRes, slabsRes, result) ==
    [seq |-> SettledCount + 1, hook |-> h, currentSettings |-> currentSettings,
     rates |-> ratesRes, stones |-> stonesRes, slabs |-> slabsRes,
     success |-> result.success, error |-> result.error,
     newSettings |-> result.newSettings]

SyncInputs == {DEFAULT_SETTINGS, SparseSettings}

SheetIds == {"sheet-1", "YOUR_SHEET_ID_HERE"}

InitSync ==
    /\ settings \in SyncInputs
    /\ product = [purity |-> "24", net_gold_weight |-> 0, stones |-> <<>>]
    /\ calc = NoOutput
    /\ priced = NoOutput
    /\ legacy = NoOutput
    /\ lastSynced = Null
    /\ sheetId \in SheetIds
    /\ sheet \in Sheets
    /\ syncs = [h \in Hooks |-> Null]
    /\ isSyncing = [h \in Hooks |-> FALSE]
    /\ syncError = [h \in Hooks |-> Null]
    /\ started = 0
    /\ applied = 0
    /\ settled = Null
    /\ clock = 0
    /\ OtherInit

\* the flag of the instance left raised
setIsSyncingStuck(flags, h, value) == [flags EXCEPT ![h] = TRUE]

\* setIsSyncing(value) of the instance h
setIsSyncing(flags, h, value) == [flags EXCEPT ![h] = value]

\* sync(settings, applySync) is called on the instance h with a sheet id:
\* the three fetches are issued and the call waits for them
StartSync(h) ==
    /\ mounted # Null
    /\ started < MaxSyncs
    /\ ~isSyncing[h]
    /\ syncs[h] = Null
    /\ sheetId # "" /\ sheetId # "YOUR_SHEET_ID_HERE"
    /\ started' = started + 1
    /\ isSyncing' = setIsSyncing(isSyncing, h, TRUE)
    /\ syncError' = [syncError EXCEPT ![h] = Null]
    /\ syncs' = [syncs EXCEPT ![h] = [currentSettings |-> settings]]
    /\ UNCHANGED <<settings, pricingOutputs, lastSynced, sheetId, sheet, applied, settled,
                   clock, stored, otherVars>>

\* sync(settings, applySync) is called in a build without a sheet id: it throws
\* before any fetch
StartSyncNotConfigured(h) ==
    /\ mounted # Null
    /\ started < MaxSyncs
    /\ ~isSyncing[h]
    /\ syncs[h] = Null
    /\ sheetId = "" \/ sheetId = "YOUR_SHEET_ID_HERE"
    /\ started' = started + 1
    /\ isSyncing' = setIsSyncing(isSyncing, h, FALSE)
    /\ syncError' = [syncError EXCEPT ![h] = NotConfigured]
    /\ settled' = Settle(h, settings, NotFetched, NotFetched, NotFetched,
                         Failure(NotConfigured))
    /\ UNCHANGED <<settings, pricingOutputs, lastSynced, sheetId, sheet, syncs, applied,
                   clock, stored, otherVars>>

\* the fetches of the call on h settle: the statuses are checked, the bodies
\* read and parsed, the settings assembled and handed to applySync
FetchesSettle(h) ==
    /\ syncs[h] # Null
    /\ \E ratesRes \in RatesResponses(sheet.rates),
          stonesRes \in StonesResponses(sheet.stones),
          slabsRes \in SlabsResponses(sheet.slabs) :
          LET currentSettings == syncs[h].currentSettings
              result == syncOutcome(currentSettings, ratesRes, stonesRes, slabsRes)
          IN /\ settled' = Settle(h, currentSettings, ratesRes, stonesRes, slabsRes, result)
             /\ IF result.success
                THEN /\ settings' = result.newSettings
                     /\ clock' = clock + 1
                     /\ lastSynced' = toISOString(clock + 1)
                     /\ applied' = applied + 1
                     /\ stored' = [settings |-> JSONstringify(result.newSettings),
                                   lastSynced |-> toISOString(clock + 1)]
                     /\ UNCHANGED syncError
                ELSE /\ syncError' = [syncError EXCEPT ![h] = result.error]
                     /\ UNCHANGED <<settings, clock, lastSynced, applied, stored>>
    /\ isSyncing' = setIsSyncing(isSyncing, h, FALSE)
    /\ syncs' = [syncs EXCEPT ![h] = Null]
    /\ UNCHANGED <<pricingOutputs, sheetId, sheet, started, otherVars>>

NextSync ==
    \/ \E h \in Hooks : StartSync(h)
    \/ \E h \in Hooks : StartSyncNotConfigured(h)
    \/ \E h \in Hooks : FetchesSettle(h)

SpecSync == InitSync /\ [][NextSync]_vars

\* The same calls over fewer sheets, with every fetch answered or failed in the
\* end, so that a waiting call resumes.
FairSheets ==
    [rates : {RatesFullText, RatesPurity9Text},
     stones : {StonesTwoText},
     slabs : {SlabsText}]

InitSyncFair == InitSync /\ settings = DEFAULT_SETTINGS /\ sheet \in FairSheets

SpecSyncFair ==
    InitSyncFair /\ [][NextSync]_vars /\ \A h \in Hooks : WF_vars(FetchesSettle(h))

-----------------------------------------------------------------------------
(* The parsers on their own: a text is parsed into rows, and the rows are   *)
(* read as a slabs table                                                    *)

\* what a quoted field can hold: separators, line breaks, quotes and words
ContentChars == {",", "\n", Quote, "a"}

Contents == SeqsUpTo(ContentChars, MaxContent)

\* the content as it is written between quotes: every quote doubled
RECURSIVE Escaped(_)
Escaped(content) ==
    IF content = <<>> THEN <<>>
    ELSE (IF Head(content) = Quote THEN <<Quote, Quote>> ELSE <<Head(content)>>)
         \o Escaped(Tail(content))

\* one line of three fields, the second one quoted
QuotedFieldText(content) == CsvLine(<<W("x"), Q(Escaped(content)), W("y")>>)

\* a numeric cell: a number, a text that is no number, an empty cell
SlabCells == {W("0.5"), W("abc"), <<>>}

SlabsHeaderWithDiscount == Append(SlabsHeader, W("discount"))

\* slabs tables of one row; without the last column the row has no discount
SlabTableTexts ==
    {CsvText(<<SlabsHeader, <<W("d1"), W("D1"), from, to, price>> >>) :
        from \in SlabCells, to \in SlabCells, price \in {W("20000"), W("n/a")}}
    \cup {CsvText(<<SlabsHeaderWithDiscount,
                    <<W("d1"), W("D1"), W("0.25"), to, W("20000"), discount>> >>) :
              to \in SlabCells, discount \in {W("0"), W("abc"), <<>>}}
    \cup {CsvText(<<SlabsHeaderWithDiscount, <<W("d1"), W("D1"), W("0.25")>> >>)}

InitParse ==
    /\ settings = DEFAULT_SETTINGS
    /\ product = [purity |-> "24", net_gold_weight |-> 0, stones |-> <<>>]
    /\ calc = NoOutput
    /\ priced = NoOutput
    /\ legacy = NoOutput
    /\ SyncInit
    /\ edits = 0
    /\ stored = [settings |-> JSONstringify(settings), lastSynced |-> Null]
    /\ mounted = [read |-> JSONstringify(settings)]
    /\ rawData = Null
    /\ filters = [priceMin |-> "", priceMax |-> ""]
    /\ products = <<>>
    /\ csvText \in {QuotedFieldText(content) : content \in Contents} \cup SlabTableTexts
    /\ parsed = NoOutput
    /\ ViewInit

\* parseCsv(text)
ParseCsv ==
    /\ parsed = NoOutput
    /\ parsed' = [stage |-> "rows", rows |-> parseCsv(csvText)]
    /\ UNCHANGED <<settings, pricingOutputs, syncVars, stored, edits, mounted, historyVars,
                   csvText, viewVars>>

\* parseSlabsTab(csvToObjects(rows))
ParseSlabsTab ==
    /\ parsed # NoOutput
    /\ parsed.stage = "rows"
    /\ parsed' = [stage |-> "slabs", rows |-> parsed.rows,
                  slabsByStone |-> parseSlabsTab(csvToObjects(parsed.rows))]
    /\ UNCHANGED <<settings, pricingOutputs, syncVars, stored, edits, mounted, historyVars,
                   csvText, viewVars>>

NextParse == ParseCsv \/ ParseSlabsTab

SpecParse == InitParse /\ [][NextParse]_vars

-----------------------------------------------------------------------------
(* The history listing: useProducts prices the fetched records under the    *)
(* current settings and filters them by price                               *)

\* parseFloat on the numeric strings of the price inputs, in 1/MoneyDen rupee
parseFloat(str) ==
    IF str \in DOMAIN Literals
    THEN (Literals[str][1] * MoneyDen) \div Literals[str][2]
    ELSE NaN

\* the memo with the bounds taken exclusive
productsMemoExclusive(data, s, f) ==
    IF data = Null THEN <<>>
    ELSE LET computed == [k \in 1..Len(data.records) |-> computePricing(data.records[k], s)]
             min == parseFloat(f.priceMin)
             max == parseFloat(f.priceMax)
             aboveMin == IF f.priceMin # ""
                         THEN SelectSeq(computed, LAMBDA p : min # NaN /\ p.total > min)
                         ELSE computed
         IN IF f.priceMax # ""
            THEN SelectSeq(aboveMin, LAMBDA p : max # NaN /\ p.total < max)
            ELSE aboveMin

\* the products memo: rawData priced with computePricing, then the price filters
productsMemo(data, s, f) ==
    IF data = Null THEN <<>>
    ELSE LET computed == [k \in 1..Len(data.records) |-> computePricing(data.records[k], s)]
             min == parseFloat(f.priceMin)
             max == parseFloat(f.priceMax)
             aboveMin == IF f.priceMin # ""
                         THEN SelectSeq(computed, LAMBDA p : min # NaN /\ p.total >= min)
                         ELSE computed
         IN IF f.priceMax # ""
            THEN SelectSeq(aboveMin, LAMBDA p : max # NaN /\ p.total <= max)
            ELSE aboveMin

ProductRecord(id, purity, net_gold_weight, stones) ==
    [id |-> id, purity |-> purity, net_gold_weight |-> net_gold_weight, stones |-> stones]

\* saved products: the example product (83430 under the default settings), a
\* plain 24k piece (27295) and a 22k piece with a stone two slabs contain
HistoryRecords ==
    { ProductRecord("p1", "18", 5 * GDen, <<Entry("s1", "A2", CtDen \div 2, 1)>>),
      ProductRecord("p2", "24", 3, <<>>),
      ProductRecord("p3", "22", 2 * GDen, <<Entry("s2", "B2", 2, 1)>>) }

\* what the price inputs hold: nothing, or a number
PriceInputs == {"", "27295", "83430"}

InitHistory ==
    /\ settings \in PricingSettings
    /\ product = [purity |-> "24", net_gold_weight |-> 0, stones |-> <<>>]
    /\ calc = NoOutput
    /\ priced = NoOutput
    /\ legacy = NoOutput
    /\ SyncInit
    /\ OtherInit

\* the query of the current filters answers with the records of the database
QuerySettles ==
    /\ rawData = Null
    /\ \E records \in SeqsUpTo(HistoryRecords, MaxRecords) :
          rawData' = [records |-> records]
    /\ products' = productsMemo(rawData', settings, filters)
    /\ UNCHANGED <<settings, pricingOutputs, syncVars, stored, edits, mounted, filters,
                   parseVars, viewVars>>

\* setFilters with other price bounds: the query key changes, its data is not
\* there yet
setFilters(priceMin, priceMax) ==
    /\ filters # [priceMin |-> priceMin, priceMax |-> priceMax]
    /\ filters' = [priceMin |-> priceMin, priceMax |-> priceMax]
    /\ rawData' = Null
    /\ products' = productsMemo(rawData', settings, filters')
    /\ UNCHANGED <<settings, pricingOutputs, syncVars, stored, edits, mounted, parseVars, viewVars>>

\* setSettings(newSettings) by an edit or a sync while the listing is shown:
\* the settings are persisted and the memo is computed again
setSettings(newSettings) ==
    /\ newSettings # settings
    /\ settings' = newSettings
    /\ stored' = [stored EXCEPT !.settings = JSONstringify(newSettings)]
    /\ products' = productsMemo(rawData, newSettings, filters)
    /\ UNCHANGED <<pricingOutputs, syncVars, edits, mounted, rawData, filters, parseVars, viewVars>>

NextHistory ==
    \/ QuerySettles
    \/ \E priceMin \in PriceInputs, priceMax \in PriceInputs : setFilters(priceMin, priceMax)
    \/ \E newSettings \in PricingSettings : setSettings(newSettings)

SpecHistory == InitHistory /\ [][NextHistory]_vars

-----------------------------------------------------------------------------
(* The application: startup from localStorage, manual edits in the settings *)
(* drawer, and syncs                                                        *)

\* a settings object with one property replaced
WithProp(obj, f, x) == Json("object", (f :> x) @@ obj.v)

\* a settings object without one property
WithoutProp(obj, f) == Json("object", [g \in DOMAIN obj.v \ {f} |-> obj.v[g]])

DefaultObject == JSONstringify(DEFAULT_SETTINGS).value

\* what can be found under the settings key
Blobs ==
    { Null,
      Text(""),
      Text("{not json"),
      JsonText(JsonNull),
      JsonText(Json("number", 5)),
      JsonText(Json("string", "settings")),
      JsonText(Json("array", <<>>)),
      JsonText(Json("object", [version |-> Json("number", 1)])),
      JsonText(WithProp(DefaultObject, "goldRate24k", Json("string", "15000"))),
      JsonText(WithProp(DefaultObject, "goldRates", Json("object", <<>>))),
      JsonText(WithProp(DefaultObject, "purityPercentages", Json("number", 92))),
      JsonText(WithProp(DefaultObject, "gstRate", JsonNull)),
      JsonText(WithoutProp(DefaultObject, "makingChargeFlat")),
      JsonText(WithoutProp(DefaultObject, "makingChargePerGram")),
      JsonText(WithProp(DefaultObject, "stoneTypes", JsonNull)),
      JSONstringify(DEFAULT_SETTINGS),
      JSONstringify(SparseSettings) }

AppSheets ==
    [rates : {RatesFullText, RatesPurity22Text},
     stones : {StonesTwoText},
     slabs : {SlabsText}]

\* the values typed into the 24k rate and into a percentage
EditedRates == {16000}
EditedPercentages == {75}

\* before useSettings mounts: no sync state, and blobs in localStorage
InitLoad ==
    /\ settings = Null
    /\ product = [purity |-> "24", net_gold_weight |-> 0, stones |-> <<>>]
    /\ calc = NoOutput
    /\ priced = NoOutput
    /\ legacy = NoOutput
    /\ SyncInit
    /\ edits = 0
    /\ stored \in [settings : Blobs, lastSynced : {Null, toISOString(0)}]
    /\ mounted = Null
    /\ rawData = Null
    /\ filters = [priceMin |-> "", priceMax |-> ""]
    /\ products = <<>>
    /\ csvText = <<>>
    /\ parsed = NoOutput
    /\ ViewInit

\* the blobs the application with its syncs is started on
AppBlobs == {Null, Text("{not json"), JSONstringify(EmptyCatalogSettings)}

InitApp ==
    /\ settings = Null
    /\ product = [purity |-> "24", net_gold_weight |-> 0, stones |-> <<>>]
    /\ calc = NoOutput
    /\ priced = NoOutput
    /\ legacy = NoOutput
    /\ lastSynced = Null
    /\ sheetId \in SheetIds
    /\ sheet \in AppSheets
    /\ syncs = [h \in Hooks |-> Null]
    /\ isSyncing = [h \in Hooks |-> FALSE]
    /\ syncError = [h \in Hooks |-> Null]
    /\ started = 0
    /\ applied = 0
    /\ settled = Null
    /\ clock = 0
    /\ edits = 0
    /\ stored \in [settings : AppBlobs, lastSynced : {Null}]
    /\ mounted = Null
    /\ rawData = Null
    /\ filters = [priceMin |-> "", priceMax |-> ""]
    /\ products = <<>>
    /\ csvText = <<>>
    /\ parsed = NoOutput
    /\ ViewInit

\* useSettings mounts: the two initializers read localStorage, then the effects
\* write the settings back, and the timestamp if there is one
Mount ==
    /\ mounted = Null
    /\ settings' = loadSettings(stored.settings)
    /\ lastSynced' = stored.lastSynced
    /\ stored' = [stored EXCEPT !.settings = JSONstringify(settings')]
    /\ mounted' = [read |-> stored.settings]
    /\ UNCHANGED <<pricingOutputs, sheetId, sheet, syncs, isSyncing, syncError, started,
                   applied, settled, clock, edits, historyVars, parseVars, viewVars>>

\* onChange of the 24k rate input, and the effect that persists the settings
updateGoldRate24k(value) ==
    /\ mounted # Null
    /\ edits < MaxEdits
    /\ edits' = edits + 1
    /\ settings' = [settings EXCEPT !.goldRate24k = value]
    /\ stored' = [stored EXCEPT !.settings = JSONstringify(settings')]
    /\ UNCHANGED <<pricingOutputs, syncVars, mounted, historyVars, parseVars, viewVars>>

\* onChange of the percentage input of a purity, and the effect that persists
updatePurityPercentage(purity, value) ==
    /\ mounted # Null
    /\ edits < MaxEdits
    /\ edits' = edits + 1
    /\ settings' = [settings EXCEPT !.purityPercentages = (purity :> value) @@ @]
    /\ stored' = [stored EXCEPT !.settings = JSONstringify(settings')]
    /\ UNCHANGED <<pricingOutputs, syncVars, mounted, historyVars, parseVars, viewVars>>

NextLoad ==
    \/ Mount
    \/ \E value \in EditedRates : updateGoldRate24k(value)
    \/ \E i \in 1..Len(GOLD_PURITIES), value \in EditedPercentages :
           updatePurityPercentage(GOLD_PURITIES[i], value)

SpecLoad == InitLoad /\ [][NextLoad]_vars

NextApp == NextLoad \/ NextSync

SpecApp == InitApp /\ [][NextApp]_vars

-----------------------------------------------------------------------------
(* The pages: the router mounts the calculator page on "/" and the history   *)
(* page on "/history".  A page mounts useSettings and its own sync instance, *)
(* the calculator page consumes the product handed off, and both run the     *)
(* auto-sync effect.  Times are counted in hours.                            *)

MaxClock == 3

MaxMounts == 2

TWO_HOURS_MS == 2

Infinity == 999999999

Routes == {"/", "/history"}

\* staleness that takes data never synced for fresh
stalenessNeverSyncedFresh(ls, now) == IF ls = Null THEN 0 ELSE now - ls.iso

\* staleness(lastSynced) at the time now
staleness(ls, now) == IF ls = Null THEN Infinity ELSE now - ls.iso

\* the effect that reads the key and leaves it in place
consumeLoadedProductKeepsKey(raw) ==
    IF raw = Null THEN [loadedProduct |-> Null, key |-> raw]
    ELSE IF raw.kind = "json" THEN [loadedProduct |-> raw.value.v, key |-> raw]
    ELSE [loadedProduct |-> Null, key |-> raw]

\* the mount effect of the calculator page on the loaded-product key: the
\* product to load and what the key holds afterwards; a text that does not
\* parse throws before the key is removed
consumeLoadedProduct(raw) ==
    IF raw = Null THEN [loadedProduct |-> Null, key |-> raw]
    ELSE IF raw.kind = "json" THEN [loadedProduct |-> raw.value.v, key |-> Null]
    ELSE [loadedProduct |-> Null, key |-> raw]

\* the product handed off
HandoffProducts == {p \in HistoryRecords : p.id = "p1"}

\* a page load: nothing is mounted, localStorage holds what earlier visits left
InitPage ==
    /\ settings = Null
    /\ product = [purity |-> "24", net_gold_weight |-> 0, stones |-> <<>>]
    /\ calc = NoOutput
    /\ priced = NoOutput
    /\ legacy = NoOutput
    /\ lastSynced = Null
    /\ sheetId \in SheetIds
    /\ sheet = [rates |-> RatesFullText, stones |-> StonesTwoText, slabs |-> SlabsText]
    /\ syncs = [h \in Hooks |-> Null]
    /\ isSyncing = [h \in Hooks |-> FALSE]
    /\ syncError = [h \in Hooks |-> Null]
    /\ started = 0
    /\ applied = 0
    /\ settled = Null
    /\ clock = 0
    /\ edits = 0
    /\ stored \in [settings : {Null}, lastSynced : {Null, toISOString(0)}]
    /\ mounted = Null
    /\ rawData = Null
    /\ filters = [priceMin |-> "", priceMax |-> ""]
    /\ products = <<>>
    /\ csvText = <<>>
    /\ parsed = NoOutput
    /\ route \in Routes
    /\ page = Null
    /\ handoff = Null
    /\ mounts = 0
    /\ StoreInit
    /\ FormInit
    /\ InputInit

\* the page of the route mounts: the initializers of useSettings read
\* localStorage and its effect writes the settings back; on "/" the first effect
\* consumes the product handed off; the auto-sync effect sets its ref and calls
\* sync(settings, applySync) when the data is stale
MountPage ==
    /\ page = Null
    /\ mounts < MaxMounts
    /\ mounts' = mounts + 1
    /\ LET loaded == loadSettings(stored.settings)
           consumed == IF route = "/" THEN consumeLoadedProduct(handoff)
                       ELSE [loadedProduct |-> Null, key |-> handoff]
           stale == staleness(stored.lastSynced, clock) > TWO_HOURS_MS
           configured == sheetId # "" /\ sheetId # "YOUR_SHEET_ID_HERE"
       IN /\ settings' = loaded
          /\ lastSynced' = stored.lastSynced
          /\ stored' = [stored EXCEPT !.settings = JSONstringify(loaded)]
          /\ mounted' = [read |-> stored.settings]
          /\ handoff' = consumed.key
          /\ page' = [name |-> route, autoSyncRan |-> TRUE,
                      autoSyncs |-> IF stale THEN 1 ELSE 0,
                      mountedAt |-> clock, lastSyncedAtMount |-> stored.lastSynced,
                      loadedProduct |-> consumed.loadedProduct]
          /\ IF ~stale
             THEN UNCHANGED <<started, isSyncing, syncError, syncs, settled>>
             ELSE /\ started' = started + 1
                  /\ IF configured
                     THEN /\ isSyncing' = setIsSyncing(isSyncing, "page", TRUE)
                          /\ syncError' = [syncError EXCEPT !["page"] = Null]
                          /\ syncs' = [syncs EXCEPT !["page"] = [currentSettings |-> loaded]]
                          /\ UNCHANGED settled
                     ELSE /\ isSyncing' = setIsSyncing(isSyncing, "page", FALSE)
                          /\ syncError' = [syncError EXCEPT !["page"] = NotConfigured]
                          /\ settled' = Settle("page", loaded, NotFetched, NotFetched,
                                               NotFetched, Failure(NotConfigured))
                          /\ UNCHANGED syncs
    /\ UNCHANGED <<pricingOutputs, sheetId, sheet, applied, clock, edits, historyVars,
                   parseVars, route, storeVars, formVars, inputVars>>

\* the router leaves the page: its state, the state of its hooks and the sync
\* calls made on them are gone
Unmounted(to) ==
    /\ route' = to
    /\ page' = Null
    /\ mounted' = Null
    /\ settings' = Null
    /\ lastSynced' = Null
    /\ syncs' = [h \in Hooks |-> Null]
    /\ isSyncing' = [h \in Hooks |-> FALSE]
    /\ syncError' = [h \in Hooks |-> Null]
    /\ UNCHANGED <<pricingOutputs, sheetId, sheet, started, applied, settled, clock, edits,
                   stored, historyVars, parseVars, mounts, storeVars, formVars, inputVars>>

\* a <Link> to the other page is followed
FollowLink(to) ==
    /\ page # Null
    /\ to # route
    /\ Unmounted(to)
    /\ UNCHANGED handoff

\* handleLoadProduct(product) of the history page: the product is stored under
\* the key, unless setItem throws, and the router goes to "/"
handleLoadProduct(p) ==
    /\ page # Null
    /\ page.name = "/history"
    /\ \/ handoff' = JsonText(Json("object", p))
       \/ UNCHANGED handoff
    /\ Unmounted("/")

\* handleProductLoaded: the calculator has taken the product over
handleProductLoaded ==
    /\ page # Null
    /\ page.loadedProduct # Null
    /\ page' = [page EXCEPT !.loadedProduct = Null]
    /\ UNCHANGED <<settings, pricingOutputs, syncVars, stored, edits, mounted, historyVars,
                   parseVars, route, handoff, mounts, storeVars, formVars, inputVars>>

\* an hour passes
Tick ==
    /\ clock < MaxClock
    /\ clock' = clock + 1
    /\ UNCHANGED <<settings, pricingOutputs, lastSynced, sheetId, sheet, syncs, isSyncing,
                   syncError, started, applied, settled, stored, otherVars>>

NextPage ==
    \/ MountPage
    \/ \E to \in Routes : FollowLink(to)
    \/ \E p \in HandoffProducts : handleLoadProduct(p)
    \/ handleProductLoaded
    \/ Tick
    \/ \E h \in Hooks : FetchesSettle(h)

SpecPage == InitPage /\ [][NextPage]_vars

-----------------------------------------------------------------------------
(* The products table: saveProduct inserts a row, deleteProduct deletes the  *)
(* rows of an id.  The upload of the image and the statements of the         *)
(* database succeed or fail.                                                 *)

MaxSaves == 2

\* what the name field holds, as characters
ProductNames == {<<>>, <<" ">>, <<"R">>, <<" ", "R", " ">>}

ImageFiles == {Null, [file |-> "ring.jpg"]}

ImageUrls == {Null, [url |-> "old"]}

SaveProductPayloads ==
    [productName : ProductNames, productImageFile : ImageFiles,
     existingImageUrl : ImageUrls, purity : {"24"}, netGoldWeight : {3},
     stones : {<<>>}]

\* uploadProductImage(file): the public URL, or null when the upload failed
Uploads(file) == {Null, [url |-> file.file]}

\* an insert that writes over the row of the same name
insertOverName(rows, row, id) ==
    IF \E r \in rows : r.product_name = row.product_name
    THEN {IF r.product_name = row.product_name THEN [id |-> r.id] @@ row ELSE r : r \in rows}
    ELSE rows \cup {[id |-> id] @@ row}

\* supabase.from("products").insert(row): the database gives the row its id
insert(rows, row, id) == rows \cup {[id |-> id] @@ row}

\* saveProduct(payload), with what the upload gave and whether the insert
\* succeeded: the row inserted, if any, and the result returned
saveProductResult(payload, uploaded, insertOk) ==
    IF trim(payload.productName) = ""
    THEN [row |-> Null, error |-> [message |-> "Product name is required to save."]]
    ELSE IF ~(payload.productImageFile # Null \/ payload.existingImageUrl # Null)
    THEN [row |-> Null, error |-> [message |-> "A product image is required to save."]]
    ELSE LET imageUrl == IF payload.productImageFile # Null
                         THEN IF uploaded # Null THEN uploaded ELSE payload.existingImageUrl
                         ELSE payload.existingImageUrl
             row == [product_name |-> trim(payload.productName),
                     product_image_url |-> imageUrl,
                     purity |-> payload.purity,
                     net_gold_weight |-> payload.netGoldWeight,
                     stones |-> payload.stones]
         IN IF insertOk THEN [row |-> row, error |-> Null]
            ELSE [row |-> Null, error |-> [message |-> "insert failed"]]

InitStore ==
    /\ settings = DEFAULT_SETTINGS
    /\ product = [purity |-> "24", net_gold_weight |-> 0, stones |-> <<>>]
    /\ calc = NoOutput
    /\ priced = NoOutput
    /\ legacy = NoOutput
    /\ SyncInit
    /\ OtherInit

saveProduct(payload) ==
    /\ saves < MaxSaves
    /\ saves' = saves + 1
    /\ \E uploaded \in (IF payload.productImageFile # Null
                        THEN Uploads(payload.productImageFile) ELSE {Null}),
          insertOk \in BOOLEAN :
          LET result == saveProductResult(payload, uploaded, insertOk)
          IN /\ lastSave' = [payload |-> payload, row |-> result.row, error |-> result.error]
             /\ table' = IF result.row # Null THEN insert(table, result.row, saves + 1)
                         ELSE table
    /\ UNCHANGED <<settings, pricingOutputs, syncVars, stored, edits, mounted, historyVars,
                   parseVars, pageVars, formVars, inputVars>>

\* deleteProduct(id): the statement deletes the rows of the id, or fails
deleteProduct(id) ==
    /\ \/ table' = {r \in table : r.id # id}
       \/ UNCHANGED table
    /\ UNCHANGED <<settings, pricingOutputs, syncVars, stored, edits, mounted, historyVars,
                   parseVars, pageVars, lastSave, saves, formVars, inputVars>>

NextStore ==
    \/ \E payload \in SaveProductPayloads : saveProduct(payload)
    \/ \E id \in 1..MaxSaves : deleteProduct(id)

SpecStore == InitStore /\ [][NextStore]_vars

-----------------------------------------------------------------------------
(* The calculator form: useCalculatorState restores and persists formState, *)
(* FormView edits it through the numeric inputs, and the Calculate button    *)
(* opens the summary.  Weights are counted in the units of the pricing       *)
(* functions; a stone is addressed by its place in the list.                 *)

\* what the gold weight input hands over
FormGoldWeights == {0, 3}

\* what a stone weight input hands over: nothing, and 0.5 ct
FormStoneWeights == {0, 2}

\* what the pieces input hands over: 0 when the field is cleared
FormQuantities == {0, 2}

\* the pieces taken as handed over
QuantityAsTyped(n) == n

\* onQtyChange of StoneRow and of FormView: String(Math.max(1, n)) is read back
\* with Number and clamped again
QuantityCommitted(n) == Max(1, Max(1, n))

\* JSON.stringify(formState)
FormJson(f) ==
    JsonText(Json("object",
        [netGoldWeight |-> JsonNumber(f.netGoldWeight),
         purity |-> Json("string", f.purity),
         stones |-> Json("array", f.stones),
         productName |-> Json("string", ""),
         productNote |-> Json("string", "")]))

isValidStoredData(obj) ==
    /\ JsTruthy(obj)
    /\ typeof(obj) = "object"
    /\ typeof(Prop(obj, "netGoldWeight")) = "number"
    /\ typeof(Prop(obj, "purity")) = "string"
    /\ isArray(Prop(obj, "stones"))
    /\ typeof(Prop(obj, "productName")) = "string"
    /\ typeof(Prop(obj, "productNote")) = "string"

\* getInitialStone(): the first stone type of the catalog, no weight, one piece
getInitialStone(s) ==
    [stoneTypeId |-> IF Len(s.stoneTypes) = 0 THEN "" ELSE s.stoneTypes[1].stoneId,
     weight |-> 0, quantity |-> 1]

\* the initializer of formState
initialFormState(blob, s) ==
    IF blob # Null /\ blob.kind = "json" /\ isValidStoredData(blob.value)
    THEN [netGoldWeight |-> blob.value.v.netGoldWeight.v,
          purity |-> blob.value.v.purity.v,
          stones |-> IF Len(blob.value.v.stones.v) = 0 THEN <<getInitialStone(s)>>
                     ELSE blob.value.v.stones.v]
    ELSE [netGoldWeight |-> 0, purity |-> "22", stones |-> <<getInitialStone(s)>>]

stonesValid(f, s) ==
    /\ Len(f.stones) > 0
    /\ \E k \in 1..Len(f.stones) : f.stones[k].weight > 0
    /\ \A k \in 1..Len(f.stones) :
          \/ f.stones[k].weight = 0
          \/ resolveAutoSlab(getStoneSlabs(s, f.stones[k].stoneTypeId), f.stones[k].weight,
                             f.stones[k].quantity) # Null

canCalculate(f, s) == f.netGoldWeight > 0 /\ stonesValid(f, s)

InitForm ==
    /\ settings \in PricingSettings
    /\ product = [purity |-> "24", net_gold_weight |-> 0, stones |-> <<>>]
    /\ calc = NoOutput
    /\ priced = NoOutput
    /\ legacy = NoOutput
    /\ SyncInit
    /\ OtherInit

\* setFormState(next) and the effect that persists formState
setFormState(next) ==
    /\ form' = next
    /\ formStored' = FormJson(next)

\* CalculatorView mounts: formState is restored and written back
MountCalculator ==
    /\ form = Null
    /\ setFormState(initialFormState(formStored, settings))
    /\ view' = "form"
    /\ UNCHANGED <<settings, pricingOutputs, syncVars, stored, edits, mounted, historyVars,
                   parseVars, pageVars, storeVars, inputVars>>

\* the calculator is left: its state is gone, the stored form stays
UnmountCalculator ==
    /\ form # Null
    /\ form' = Null
    /\ view' = "form"
    /\ UNCHANGED <<settings, pricingOutputs, syncVars, stored, edits, mounted, historyVars,
                   parseVars, pageVars, storeVars, inputVars, formStored>>

\* an edit of the form by FormView
FormEdit(next) ==
    /\ form # Null
    /\ view = "form"
    /\ setFormState(next)
    /\ UNCHANGED <<settings, pricingOutputs, syncVars, stored, edits, mounted, historyVars,
                   parseVars, pageVars, storeVars, inputVars, view>>

updateNetGoldWeight(n) ==
    /\ form # Null
    /\ FormEdit([form EXCEPT !.netGoldWeight = n])

\* onWeightChange of the stone at place k
onWeightChange(k, n) ==
    /\ form # Null
    /\ k \in 1..Len(form.stones)
    /\ FormEdit([form EXCEPT !.stones[k].weight = n])

\* onQtyChange of the stone at place k
onQtyChange(k, n) ==
    /\ form # Null
    /\ k \in 1..Len(form.stones)
    /\ FormEdit([form EXCEPT !.stones[k].quantity = QuantityCommitted(n)])

\* the stone type select offers the stone types of the catalog
handleStoneTypeChange(k, value) ==
    /\ form # Null
    /\ k \in 1..Len(form.stones)
    /\ \E t \in 1..Len(settings.stoneTypes) : settings.stoneTypes[t].stoneId = value
    /\ FormEdit([form EXCEPT !.stones[k].stoneTypeId = value])

addStone ==
    /\ form # Null
    /\ Len(form.stones) < MaxStones
    /\ FormEdit([form EXCEPT !.stones = Append(@, getInitialStone(settings))])

\* the remove button is shown while there is more than one stone
removeStone(k) ==
    /\ form # Null
    /\ Len(form.stones) > 1
    /\ k \in 1..Len(form.stones)
    /\ FormEdit([form EXCEPT !.stones =
                     SubSeq(@, 1, k - 1) \o SubSeq(@, k + 1, Len(@))])

\* the Calculate button, enabled by canCalculate
goToSummary ==
    /\ form # Null
    /\ view = "form"
    /\ canCalculate(form, settings)
    /\ view' = "summary"
    /\ UNCHANGED <<settings, pricingOutputs, syncVars, stored, edits, mounted, historyVars,
                   parseVars, pageVars, storeVars, inputVars, form, formStored>>

goToForm ==
    /\ form # Null
    /\ view = "summary"
    /\ view' = "form"
    /\ UNCHANGED <<settings, pricingOutputs, syncVars, stored, edits, mounted, historyVars,
                   parseVars, pageVars, storeVars, inputVars, form, formStored>>

\* reset of the summary view
reset ==
    /\ form # Null
    /\ view = "summary"
    /\ setFormState([netGoldWeight |-> 0, purity |-> "22",
                     stones |-> <<getInitialStone(settings)>>])
    /\ view' = "form"
    /\ UNCHANGED <<settings, pricingOutputs, syncVars, stored, edits, mounted, historyVars,
                   parseVars, pageVars, storeVars, inputVars>>

NextForm ==
    \/ MountCalculator
    \/ UnmountCalculator
    \/ \E n \in FormGoldWeights : updateNetGoldWeight(n)
    \/ \E k \in 1..MaxStones, n \in FormStoneWeights : onWeightChange(k, n)
    \/ \E k \in 1..MaxStones, n \in FormQuantities : onQtyChange(k, n)
    \/ \E k \in 1..MaxStones, value \in {"s1", "s2", "s3"} : handleStoneTypeChange(k, value)
    \/ addStone
    \/ \E k \in 1..MaxStones : removeStone(k)
    \/ goToSummary
    \/ goToForm
    \/ reset
    \/ \E newSettings \in PricingSettings : setSettings(newSettings)

SpecForm == InitForm /\ [][NextForm]_vars

-----------------------------------------------------------------------------
(* useNumericInput: the display string of a numeric field and what it passes *)
(* to onChange.  Texts are sequences of characters; numbers are counted in   *)
(* 1/InputDen, which holds every decimal a text of MaxRaw characters writes. *)

MaxRaw == 3

InputDen == 10 ^ MaxRaw

InputChars == {"0", "1", "5", ".", "-", "a"}

RawTexts == SeqsUpTo(InputChars, MaxRaw)

DigitChars == <<"0", "1", "2", "3", "4", "5", "6", "7", "8", "9">>

IsDigit(c) == \E i \in 1..10 : DigitChars[i] = c

DigitValue(c) == (CHOOSE i \in 1..10 : DigitChars[i] = c) - 1

\* the value of a run of digits
RECURSIVE DigitsValue(_)
DigitsValue(chars) ==
    IF chars = <<>> THEN 0
    ELSE DigitsValue(SubSeq(chars, 1, Len(chars) - 1)) * 10 + DigitValue(chars[Len(chars)])

\* the number of digits chars starts with
RECURSIVE LeadingDigits(_)
LeadingDigits(chars) ==
    IF chars # <<>> /\ IsDigit(Head(chars)) THEN 1 + LeadingDigits(Tail(chars)) ELSE 0

\* /^\d+$/.test(raw)
IntegerPattern(chars) == Len(chars) >= 1 /\ \A k \in 1..Len(chars) : IsDigit(chars[k])

\* /^(\d+\.?\d*|\.\d+)$/.test(raw)
DecimalPattern(chars) ==
    LET dots == {k \in 1..Len(chars) : chars[k] = "."}
    IN /\ \A k \in 1..Len(chars) : IsDigit(chars[k]) \/ chars[k] = "."
       /\ Cardinality(dots) <= 1
       /\ \E k \in 1..Len(chars) : IsDigit(chars[k])

\* the number an unsigned text starts with, or NaN
unsignedPrefix(chars) ==
    LET intLen == LeadingDigits(chars)
        afterInt == SubSeq(chars, intLen + 1, Len(chars))
        fracLen == IF afterInt # <<>> /\ Head(afterInt) = "."
                   THEN LeadingDigits(Tail(afterInt)) ELSE 0
        frac == SubSeq(afterInt, 2, fracLen + 1)
    IN IF intLen = 0 /\ fracLen = 0 THEN NaN
       ELSE DigitsValue(SubSeq(chars, 1, intLen)) * InputDen
            + (DigitsValue(frac) * InputDen) \div (10 ^ fracLen)

\* parseFloat(text): the number the text starts with, or NaN
parseFloatOfText(chars) ==
    IF chars # <<>> /\ Head(chars) = "-"
    THEN (IF unsignedPrefix(Tail(chars)) = NaN THEN NaN ELSE 0 - unsignedPrefix(Tail(chars)))
    ELSE unsignedPrefix(chars)

\* the digits of a natural number
RECURSIVE NatText(_)
NatText(n) ==
    IF n < 10 THEN <<DigitChars[n + 1]>>
    ELSE NatText(n \div 10) \o <<DigitChars[(n % 10) + 1]>>

\* the decimals of fr/10^width without the trailing zeros
RECURSIVE FracText(_, _)
FracText(fr, width) ==
    IF fr = 0 THEN <<>>
    ELSE <<DigitChars[(fr \div (10 ^ (width - 1))) + 1]>>
         \o FracText(fr % (10 ^ (width - 1)), width - 1)

\* String(n) of a number that is not negative
StringOfNumber(n) ==
    IF n % InputDen = 0 THEN NatText(n \div InputDen)
    ELSE NatText(n \div InputDen) \o <<".">> \o FracText(n % InputDen, MaxRaw)

\* value === 0 ? "" : String(value)
DisplayOf(value) == IF value = 0 THEN <<>> ELSE StringOfNumber(value)

\* the numeric fields of the calculator: the weights, and the pieces of a stone
NumericFields ==
    { [name |-> "weight", allowDecimal |-> TRUE, min |-> 0, value |-> 0],
      [name |-> "quantity", allowDecimal |-> FALSE, min |-> InputDen, value |-> InputDen] }

\* what the onChange of the field makes of n: the next value of the field
ValueAfter(f, n) ==
    IF f.name = "quantity" THEN Max(InputDen, Max(InputDen, n)) ELSE n

InitInput ==
    /\ settings = DEFAULT_SETTINGS
    /\ product = [purity |-> "24", net_gold_weight |-> 0, stones |-> <<>>]
    /\ calc = NoOutput
    /\ priced = NoOutput
    /\ legacy = NoOutput
    /\ SyncInit
    /\ edits = 0
    /\ stored = [settings |-> JSONstringify(settings), lastSynced |-> Null]
    /\ mounted = [read |-> JSONstringify(settings)]
    /\ rawData = Null
    /\ filters = [priceMin |-> "", priceMax |-> ""]
    /\ products = <<>>
    /\ csvText = <<>>
    /\ parsed = NoOutput
    /\ PageInit
    /\ StoreInit
    /\ FormInit
    /\ \E f \in NumericFields :
          field = [name |-> f.name, allowDecimal |-> f.allowDecimal, min |-> f.min,
                   value |-> f.value, display |-> DisplayOf(f.value), isFocused |-> FALSE]
    /\ emitted = NoOutput

\* what handleChange(raw) does to the display, and what it passes to onChange
handleChangeResult(f, raw) ==
    IF raw = <<>> \/ raw = <<"-">>
    THEN [display |-> raw, onChange |-> [n |-> 0]]
    ELSE IF f.allowDecimal
    THEN (IF DecimalPattern(raw)
          THEN [display |-> raw,
                onChange |-> IF parseFloatOfText(raw) # NaN
                             THEN [n |-> Max(f.min, parseFloatOfText(raw))] ELSE NoOutput]
          ELSE [display |-> f.display, onChange |-> NoOutput])
    ELSE (IF IntegerPattern(raw)
          THEN [display |-> raw, onChange |-> [n |-> Max(f.min, DigitsValue(raw) * InputDen)]]
          ELSE [display |-> f.display, onChange |-> NoOutput])

\* what handleBlur passes to onChange
handleBlurResult(f) ==
    LET number == parseFloatOfText(f.display)
    IN IF number = NaN \/ f.display = <<>> \/ f.display = <<".">>
       THEN [n |-> 0]
       ELSE [n |-> Max(f.min, number)]

handleFocus ==
    /\ ~field.isFocused
    /\ field' = [field EXCEPT !.isFocused = TRUE]
    /\ UNCHANGED <<settings, pricingOutputs, syncVars, stored, edits, mounted, historyVars,
                   parseVars, pageVars, storeVars, formVars, emitted>>

\* the user types in the focused field
handleChange(raw) ==
    /\ field.isFocused
    /\ LET result == handleChangeResult(field, raw)
       IN /\ field' = [field EXCEPT !.display = result.display,
                                    !.value = IF result.onChange = NoOutput THEN @
                                              ELSE ValueAfter(field, result.onChange.n)]
          /\ emitted' = IF result.onChange = NoOutput THEN emitted ELSE result.onChange
    /\ UNCHANGED <<settings, pricingOutputs, syncVars, stored, edits, mounted, historyVars,
                   parseVars, pageVars, storeVars, formVars>>

\* the field loses the focus: the display is parsed and passed on, and the
\* effect writes the display of the value
handleBlur ==
    /\ field.isFocused
    /\ LET result == handleBlurResult(field)
           value == ValueAfter(field, result.n)
       IN /\ field' = [field EXCEPT !.isFocused = FALSE, !.value = value,
                                    !.display = DisplayOf(value)]
          /\ emitted' = result
    /\ UNCHANGED <<settings, pricingOutputs, syncVars, stored, edits, mounted, historyVars,
                   parseVars, pageVars, storeVars, formVars>>

NextInput ==
    \/ handleFocus
    \/ \E raw \in RawTexts : handleChange(raw)
    \/ handleBlur

SpecInput == InitInput /\ [][NextInput]_vars

-----------------------------------------------------------------------------
(* Properties of the settings synchronizer *)

FetchFailed(res) == res.kind = "rejected" \/ (res.kind = "response" /\ ~res.ok)

StoneRowsOf(res) == parseStonesTab(csvToObjects(parseCsv(res.text)))

\* C8: when one of the three fetches of a sync call is rejected or answers with
\* a non-success status, the step in which the call settles does not invoke the
\* success callback and leaves the settings and the last-synced timestamp as
\* they were; the call reports a failure.
C8_FailedFetchAbortsSync ==
    [][(/\ SettledCount' = SettledCount + 1
        /\ \/ FetchFailed(settled'.rates)
           \/ FetchFailed(settled'.stones)
           \/ FetchFailed(settled'.slabs))
       => /\ ~settled'.success
          /\ applied' = applied
          /\ settings' = settings
          /\ lastSynced' = lastSynced]_vars

\* a call whose rates fetch succeeded and whose stones fetch did not has
\* failed, after an earlier call had set the timestamp
C8_Witness ==
    /\ settled # Null
    /\ settled.rates.kind = "response" /\ settled.rates.ok
    /\ FetchFailed(settled.stones)
    /\ ~settled.success
    /\ lastSynced # Null
    /\ settings # settled.currentSettings

\* C9: the settings produced by a sync keep, for every recognized key absent
\* from the rates table, the value of the current settings: the four scalar
\* fields, and each purity percentage whose purity_N key is absent.
C9_AbsentKeysKeepCurrent ==
    (settled # Null /\ settled.success) =>
        LET map == RatesMap(csvToObjects(parseCsv(settled.rates.text)))
            cur == settled.currentSettings
            new == settled.newSettings
        IN /\ \A f \in {"goldRate24k", "makingChargeFlat", "makingChargePerGram",
                        "gstRate"} :
                  f \notin DOMAIN map => new[f] = cur[f]
           /\ \A p \in DOMAIN cur.purityPercentages :
                  ("purity_" \o p) \notin DOMAIN map =>
                      /\ p \in DOMAIN new.purityPercentages
                      /\ new.purityPercentages[p] = cur.purityPercentages[p]

\* C10: when the stones table yields no stone row, the settings produced by the
\* sync have the stone catalog of the current settings, whatever the other
\* tables hold.
C10_NoStoneRowsKeepsCatalog ==
    (settled # Null /\ settled.success /\ Len(StoneRowsOf(settled.stones)) = 0) =>
        settled.newSettings.stoneTypes = settled.currentSettings.stoneTypes

\* a sync with rates and slabs rows but no stone row has succeeded on a
\* populated catalog
C10_Witness ==
    /\ settled # Null
    /\ settled.success
    /\ Len(StoneRowsOf(settled.stones)) = 0
    /\ settled.currentSettings.stoneTypes # <<>>
    /\ settled.slabs.text = SlabsText
    /\ settled.rates.text = RatesFullText
    /\ settings = settled.newSettings

\* C12: after a successful sync goldRates has an entry for every purity key of
\* the resulting purityPercentages, a purity first introduced by a purity_N key
\* of the sheet included, with rate = round(goldRate24k * percentage / 100)
\* computed from the merged values.
C12_GoldRateForEveryPurity ==
    (settled # Null /\ settled.success) =>
        LET new == settled.newSettings
        IN \A p \in DOMAIN new.purityPercentages :
              \E k \in 1..Len(new.goldRates) :
                  /\ new.goldRates[k].purity = p
                  /\ new.goldRates[k].rate
                        = RoundRate(new.goldRate24k, new.purityPercentages[p])

\* C13: a sync that starts from the settings the previous sync produced and
\* receives the same rates, stones and slabs payloads produces those settings
\* again.
C13_SecondSyncChangesNothing ==
    [][(/\ settled # Null
        /\ settled.success
        /\ SettledCount' = SettledCount + 1
        /\ settled'.success
        /\ settled'.currentSettings = settled.newSettings
        /\ settled'.rates = settled.rates
        /\ settled'.stones = settled.stones
        /\ settled'.slabs = settled.slabs)
       => /\ settled'.newSettings = settled.newSettings
          /\ settings' = settled.newSettings]_vars

\* the second of two successful syncs started from what the first, which had
\* changed rates and catalog, produced
C13_Witness ==
    /\ settled # Null
    /\ settled.success
    /\ applied = 2
    /\ settled.currentSettings \notin SyncInputs
    /\ settled.rates.text = RatesFullText
    /\ settled.stones.text = StonesTwoText
    /\ settled.slabs.text = SlabsText
    /\ settled.newSettings = settled.currentSettings
    /\ settings = settled.newSettings

Messages ==
    {NotConfigured, Rejected.message, BodyError}
    \cup {TabError(tab, Http(status, ErrorBody)) :
             tab \in {"rates", "stones", "slabs"}, status \in {404, 500}}

\* C14: every sync call settles with an explicit result: success after the
\* success callback ran, or failure with a message (no sheet id, a network
\* error, a non-success status, a failure while reading); a call that waits
\* for its fetches settles.
C14_SyncSettlesWithResult ==
    /\ [][(SettledCount' = SettledCount + 1) =>
            /\ ~isSyncing'[settled'.hook]
            /\ IF settled'.success
               THEN /\ settled'.error = Undefined
                    /\ applied' = applied + 1
                    /\ settings' = settled'.newSettings
                    /\ lastSynced' # lastSynced
               ELSE /\ settled'.error \in Messages
                    /\ syncError'[settled'.hook] = settled'.error
                    /\ applied' = applied]_<<started, SettledCount>>
    /\ [][started' = started + 1 =>
             \/ SettledCount' = SettledCount + 1
             \/ \E h \in Hooks : syncs[h] = Null /\ syncs'[h] # Null]_<<started, SettledCount>>
    /\ \A h \in Hooks : (syncs[h] # Null) ~> (syncs[h] = Null /\ ~isSyncing[h])

\* a call has failed while reading a body after an earlier call had succeeded
C14_Witness ==
    /\ settled # Null
    /\ ~settled.success
    /\ settled.error = BodyError
    /\ applied >= 1
    /\ started = 2
    /\ \A h \in Hooks : syncs[h] = Null

\* C11: in every settings state reached by the initial load, by edits of the
\* 24k rate or of a purity percentage and by syncs, each entry of goldRates has
\* rate = round(goldRate24k * purityPercentages[purity] / 100).
C11_GoldRatesDerived ==
    mounted # Null =>
        \A k \in 1..Len(settings.goldRates) :
            LET gr == settings.goldRates[k]
            IN /\ gr.purity \in DOMAIN settings.purityPercentages
               /\ gr.rate = RoundRate(settings.goldRate24k,
                                      settings.purityPercentages[gr.purity])

\* an object with the four numbers, the two arrays and the percentages object
HasSettingsShape(x) ==
    /\ x.t = "object"
    /\ \A f \in {"goldRate24k", "makingChargeFlat", "makingChargePerGram", "gstRate"} :
          f \in DOMAIN x.v /\ x.v[f].t = "number"
    /\ \A f \in {"goldRates", "stoneTypes"} : f \in DOMAIN x.v /\ x.v[f].t = "array"
    /\ "purityPercentages" \in DOMAIN x.v
    /\ x.v["purityPercentages"].t \in {"object", "array", "null"}

InvalidBlob(blob) == blob # Null /\ (blob.kind = "text" \/ ~HasSettingsShape(blob.value))

\* C19: at startup a persisted settings blob that cannot be parsed or fails the
\* shape check is discarded: the settings are the built-in defaults, the blob
\* is replaced by them, and the startup completes.
C19_InvalidBlobGivesDefaults ==
    /\ [][(mounted = Null /\ mounted' # Null /\ InvalidBlob(stored.settings))
            => /\ settings' = DEFAULT_SETTINGS
               /\ stored'.settings = JSONstringify(DEFAULT_SETTINGS)]_<<mounted, edits>>
    /\ (mounted # Null /\ InvalidBlob(mounted.read) /\ edits = 0)
           => settings = DEFAULT_SETTINGS

\* the startup has read an object that has every property but one of the wrong
\* kind, and has put the defaults in its place
C19_Witness ==
    /\ mounted # Null
    /\ mounted.read = JsonText(WithProp(DefaultObject, "goldRate24k",
                                        Json("string", "15000")))
    /\ InvalidBlob(mounted.read)
    /\ settings = DEFAULT_SETTINGS
    /\ stored.settings = JSONstringify(DEFAULT_SETTINGS)
    /\ edits = 0

\* the objects of the rows parsed, once the slabs table is read
SlabRowsParsed ==
    SelectSeq(csvToObjects(parsed.rows), LAMBDA r : Truthy(Get(r, "stoneid")))

\* C17: for every slabs row with a stone id, each numeric field of the slab
\* whose cell is missing or is no number is 0, and the field of a cell that is
\* a number is that number; no field is a non-number.
C17_MalformedCellIsZero ==
    (parsed # NoOutput /\ parsed.stage = "slabs") =>
        \A k \in 1..Len(SlabRowsParsed) :
            LET r == SlabRowsParsed[k]
                slab == parsed.slabsByStone[r["stoneid"]][k]
                Expected(cell, unit) ==
                    IF cell \in DOMAIN Literals THEN Number(cell, unit) ELSE 0
            IN /\ slab.fromWeight = Expected(Get(r, "fromweight"), CtDen)
               /\ slab.toWeight = Expected(Get(r, "toweight"), CtDen)
               /\ slab.pricePerCarat = Expected(Get(r, "pricepercarat"), 1)
               /\ slab.discount = Expected(Get(r, "discount"), 1)

\* C18: a double-quoted field is one field even when it holds commas or line
\* breaks, each doubled quote in it becoming one quote: the line is one row of
\* three fields and the second field is the content, trimmed as every field is.
C18_QuotedFieldIsOneField ==
    parsed # NoOutput =>
        \A content \in Contents :
            csvText = QuotedFieldText(content) =>
                parsed.rows = << <<"x", trim(content), "y">> >>

\* a field that holds a comma, a doubled quote and a line break has been parsed
C18_Witness ==
    /\ parsed # NoOutput
    /\ csvText = QuotedFieldText(<<",", Quote, "\n">>)
    /\ Len(parsed.rows) = 1
    /\ parsed.rows[1][2] = "," \o Quote

\* the total of a record under the current settings is within the bounds set
WithinPriceRange(record) ==
    LET total == computePricing(record, settings).total
    IN /\ filters.priceMin # "" =>
             total * Literals[filters.priceMin][2]
                >= Literals[filters.priceMin][1] * MoneyDen
       /\ filters.priceMax # "" =>
             total * Literals[filters.priceMax][2]
                <= Literals[filters.priceMax][1] * MoneyDen

\* C20: the price filter is applied after the live pricing: the listed products
\* are exactly the fetched records, in their order, whose total under the
\* current settings satisfies priceMin <= total <= priceMax, a bound applying
\* only when set; this holds again after every change of the settings.
C20_ListedAreWithinRange ==
    IF rawData = Null THEN products = <<>>
    ELSE LET kept == SelectSeq(rawData.records, WithinPriceRange)
         IN /\ Len(products) = Len(kept)
            /\ \A k \in 1..Len(kept) :
                  /\ products[k].id = kept[k].id
                  /\ products[k].total = computePricing(kept[k], settings).total

\* with both bounds set, and after the settings have changed, a record whose
\* total is the lower bound is listed and another record is left out
C20_Witness ==
    /\ rawData # Null
    /\ filters.priceMin # "" /\ filters.priceMax # ""
    /\ stored.settings # mounted.read
    /\ Len(rawData.records) = 2
    /\ Len(products) = 1
    /\ products[1].total = parseFloat(filters.priceMin)

\* the scalar fields of the settings a rates table can supply
ScalarFields == {"goldRate24k", "makingChargeFlat", "makingChargePerGram", "gstRate"}

\* C22: a manual edit made while a sync is in flight is still there after the
\* sync succeeds, for every field the sheet does not supply: the step that
\* applies the result leaves those fields of the settings as they were.
C22_EditSurvivesSync ==
    [][(SettledCount' = SettledCount + 1 /\ settled'.success)
        => LET supplied == DOMAIN RatesMap(csvToObjects(parseCsv(settled'.rates.text)))
           IN \A f \in ScalarFields \ supplied : settings'[f] = settings[f]]_<<started, SettledCount>>

\* C23: at most one sync is in flight at any time: the call of the page and
\* the call of the settings drawer never overlap.
C23_OneSyncInFlight == Cardinality({h \in Hooks : syncs[h] # Null}) <= 1

C25_AutoSyncOncePerMount ==
    page # Null =>
        /\ page.autoSyncs <= 1
        /\ page.autoSyncs = 1 <=>
               \/ page.lastSyncedAtMount = Null
               \/ page.mountedAt - page.lastSyncedAtMount.iso > 2

\* a page mounted three hours after the last sync has started its automatic
\* sync, the sync has replaced the settings, and the page is still mounted
C25_Witness ==
    /\ page # Null
    /\ page.lastSyncedAtMount # Null
    /\ page.mountedAt - page.lastSyncedAtMount.iso = 3
    /\ page.autoSyncs = 1
    /\ settled # Null
    /\ settled.success
    /\ lastSynced # page.lastSyncedAtMount

\* C29: a product handed off from the history page is loaded at most once: a
\* page that has loaded a product leaves the key empty, a mount loads only
\* what the key holds, and the key is filled again only by a hand-off of the
\* history page.
C29_HandoffLoadedOnce ==
    /\ [](page # Null /\ page.name = "/" => handoff = Null)
    /\ [][/\ (page = Null /\ page' # Null /\ page'.loadedProduct # Null)
              => (handoff # Null /\ handoff' = Null)
          /\ (handoff = Null /\ handoff' # Null)
              => (page # Null /\ page.name = "/history" /\ page' = Null)]_<<mounts, handoff>>

\* the calculator page has loaded the product the history page handed off,
\* and the key is empty
C29_Witness ==
    /\ page # Null
    /\ page.name = "/"
    /\ page.loadedProduct # Null
    /\ page.loadedProduct.id = "p1"
    /\ handoff = Null

\* C21: a stored record is never modified after its creation: a step of the
\* store leaves every row it keeps as it was, adds at most one row, under an
\* id no row has had, and otherwise only removes the rows of one id.
C21_RecordsNeverModified ==
    [][/\ \A r \in table : r \in table' \/ \A q \in table' : q.id # r.id
       /\ Cardinality(table' \ table) <= 1
       /\ \A q \in table' \ table : q.id = saves' /\ saves' = saves + 1 /\ table \subseteq table'
       /\ \A r \in table \ table', q \in table \ table' : r.id = q.id]_table

\* a second save of the same name has added a second row next to the first
C21_Witness ==
    /\ Cardinality(table) = 2
    /\ \A r \in table : r.product_name = "R"
    /\ \A r \in table : r.product_image_url = [url |-> "old"]

\* C28: saveProduct inserts no row whose name is empty or whitespace only and
\* no row without an image URL: every row of the table has a name and a
\* non-null image URL, and a save without a name or without an image returns an
\* error and inserts nothing.
C28_InsertedHaveNameAndImage ==
    /\ \A r \in table : r.product_name # "" /\ r.product_image_url # Null
    /\ (/\ lastSave # Null
        /\ \/ \A k \in 1..Len(lastSave.payload.productName) :
                  IsSpace(lastSave.payload.productName[k])
           \/ (lastSave.payload.productImageFile = Null
                  /\ lastSave.payload.existingImageUrl = Null))
       => (lastSave.row = Null /\ lastSave.error # Null)

\* C26: whenever the summary is displayed the gold weight is positive, a stone
\* has a positive weight, and every stone with a positive weight resolves to a
\* slab under the settings in effect, also after a sync replaced the settings
\* while the summary was open.
C26_SummaryIsPriceable ==
    (form # Null /\ view = "summary") =>
        /\ form.netGoldWeight > 0
        /\ \E k \in 1..Len(form.stones) : form.stones[k].weight > 0
        /\ \A k \in 1..Len(form.stones) :
              form.stones[k].weight > 0 =>
                  resolveAutoSlab(getStoneSlabs(settings, form.stones[k].stoneTypeId),
                                  form.stones[k].weight, form.stones[k].quantity) # Null

\* C27: in every state of the calculator, whatever was typed, cleared, added,
\* removed, reset or restored, every stone of the form has at least one piece.
C27_QuantityAtLeastOne ==
    form # Null => \A k \in 1..Len(form.stones) : form.stones[k].quantity >= 1

\* a persisted form of two stones, one of two pieces and one of one piece,
\* shown in the summary
C27_Witness ==
    /\ form # Null
    /\ formStored = FormJson(form)
    /\ Len(form.stones) = 2
    /\ form.stones[1].quantity = 2
    /\ form.stones[2].quantity = 1
    /\ form.stones[2].weight > 0
    /\ view = "summary"

\* C30: every value useNumericInput passes to onChange is a finite number
\* that is not below the minimum of the field.
C30_EmittedAtLeastMin ==
    emitted # NoOutput => (emitted.n # NaN /\ emitted.n >= field.min)

====
